---- MODULE Spec2Model ----
(***************************************************************************)
(* URL state codec of the damage-calculator UI (url_state.js), with the   *)
(* base64url helpers of utils.js and the page initialisation of main.js,  *)
(* and the party list (party_ui.js) with recalc (recalc.js, api.js).       *)
(*                                                                         *)
(* Representation.  A JavaScript string is a sequence of one-character    *)
(* strings (the token "qy" is <<"q","y">>), so that parsing and           *)
(* formatting are computed character by character.  A character outside   *)
(* ASCII is the string that names its code unit, "U+" and four            *)
(* hexadecimal digits: the no-break space is "U+00A0".  petLevelSum tokens *)
(* and query keys are only ever compared for identity and stay atomic     *)
(* strings.  A relic <select> holds one of the option values "1".."11";   *)
(* it is modelled by the integer that Number() reads from it.  null is    *)
(* NoValue, a value v that may be null is Some(v).                        *)
(***************************************************************************)
EXTENDS Integers, Sequences, FiniteSets, TLC

NoValue == [some |-> FALSE]
Some(v) == [some |-> TRUE, val |-> v]

Min2(a, b) == IF a < b THEN a ELSE b
Max2(a, b) == IF a > b THEN a ELSE b

\* The function f on 1..n as the sequence <<f[1], ..., f[n]>>.
AsSeq(f) == f \o << >>

RECURSIVE Pow(_, _)
Pow(b, e) == IF e = 0 THEN 1 ELSE b * Pow(b, e - 1)

(***************************************************************************)
(* Program constants                                                       *)
(***************************************************************************)
RELIC_KEYS ==
  <<"moneyGunLv", "powerPotionLv", "fairyBowLv", "greatSwordLv",
    "secretBookLv", "bambaDollLv", "batLv", "wizardHatLv", "bombLv",
    "oldBookLv", "sageYogurtLv", "magicGauntletLv">>

PET_LEVEL_SUM_VALUES == <<"hoge", "fuga", "piyo">>

OTHER_DEFAULTS ==
  [guildBlessing |-> <<"1">>, unitLevelSumBuff |-> <<"0">>, petLevelSum |-> "hoge"]

\* Lowest and highest relic level kept by clampRelicLv.
RelicLvMin == 1
RelicLvMax == 11

(***************************************************************************)
(* Characters                                                              *)
(***************************************************************************)
DigitChars == <<"0", "1", "2", "3", "4", "5", "6", "7", "8", "9">>
LowerChars ==
  <<"a", "b", "c", "d", "e", "f", "g", "h", "i", "j", "k", "l", "m",
    "n", "o", "p", "q", "r", "s", "t", "u", "v", "w", "x", "y", "z">>
UpperChars ==
  <<"A", "B", "C", "D", "E", "F", "G", "H", "I", "J", "K", "L", "M",
    "N", "O", "P", "Q", "R", "S", "T", "U", "V", "W", "X", "Y", "Z">>

\* The alphabet of btoa / atob, value 0 first.
B64Alphabet == UpperChars \o LowerChars \o DigitChars \o <<"+", "/">>

\* The digits of Number.prototype.toString(36), value 0 first.
Base36Digits == DigitChars \o LowerChars

\* seq.indexOf(x): the 0-based position of the first x, or -1.
RECURSIVE IndexFrom(_, _, _)
IndexFrom(seq, x, i) ==
  IF i > Len(seq) THEN -1
  ELSE IF seq[i] = x THEN i - 1
  ELSE IndexFrom(seq, x, i + 1)

IndexOf(seq, x) == IndexFrom(seq, x, 1)

\* The table c |-> position of c in seq (0-based), for distinct elements.
RECURSIVE TableFrom(_, _)
TableFrom(seq, i) ==
  IF i = Len(seq) THEN seq[i] :> (i - 1)
  ELSE (seq[i] :> (i - 1)) @@ TableFrom(seq, i + 1)

B64Table == TableFrom(B64Alphabet, 1)
DigitTable == TableFrom(DigitChars, 1)
LowerTable == TableFrom(LowerChars, 1)
UpperTable == TableFrom(UpperChars, 1)

\* Value of c in the btoa / atob alphabet, or -1.
B64Val(c) == IF c \in DOMAIN B64Table THEN B64Table[c] ELSE -1

\* Value of c as a decimal digit, or -1.
DigitVal10(c) == IF c \in DOMAIN DigitTable THEN DigitTable[c] ELSE -1

\* StrWhiteSpaceChar, skipped by parseInt and trimmed by Number: TAB, LF,
\* VT, FF, CR, SPACE, the no-break space, the space separators of Unicode,
\* the line and paragraph separators and the byte order mark.
IsWhite(c) ==
  c \in {"\t", "\n", "", "\f", "\r", " ", "U+00A0", "U+1680", "U+2000", "U+2001",
         "U+2002", "U+2003", "U+2004", "U+2005", "U+2006", "U+2007", "U+2008",
         "U+2009", "U+200A", "U+2028", "U+2029", "U+202F", "U+205F", "U+3000",
         "U+FEFF"}

\* ASCII whitespace, removed by atob: TAB, LF, FF, CR and SPACE.
IsAsciiWhite(c) == c \in {"\t", "\n", "\f", "\r", " "}

\* Value of c as a digit of parseInt(_, 36), or -1; letters in either case.
DigitVal36(c) ==
  IF c \in DOMAIN DigitTable THEN DigitTable[c]
  ELSE IF c \in DOMAIN LowerTable THEN 10 + LowerTable[c]
  ELSE IF c \in DOMAIN UpperTable THEN 10 + UpperTable[c]
  ELSE -1

\* The string s without its leading white space.
SkipWhite(s) ==
  IF \A i \in 1..Len(s) : IsWhite(s[i]) THEN << >>
  ELSE SubSeq(s, CHOOSE i \in 1..Len(s) :
                   ~IsWhite(s[i]) /\ \A j \in 1..(i - 1) : IsWhite(s[j]),
              Len(s))

\* The longest prefix of s made of base-36 digits.
DigitPrefix36(s) ==
  SubSeq(s, 1, CHOOSE n \in 0..Len(s) :
                 /\ \A i \in 1..n : DigitVal36(s[i]) >= 0
                 /\ n = Len(s) \/ DigitVal36(s[n + 1]) < 0)

IsDigits(s) == \A i \in 1..Len(s) : DigitVal10(s[i]) >= 0

(***************************************************************************)
(* Natural numbers of any size: the sequence of the decimal digits (the   *)
(* integers 0..9), most significant first, no leading zeros, << >> for 0. *)
(***************************************************************************)
Zeros(n) == AsSeq([i \in 1..n |-> 0])

StripLeadingZeros(ds) ==
  IF \A i \in 1..Len(ds) : ds[i] = 0 THEN << >>
  ELSE SubSeq(ds, CHOOSE i \in 1..Len(ds) : ds[i] # 0 /\ \A j \in 1..(i - 1) : ds[j] = 0,
              Len(ds))

StripTrailingZeros(ds) ==
  IF \A i \in 1..Len(ds) : ds[i] = 0 THEN << >>
  ELSE SubSeq(ds, 1,
              CHOOSE i \in 1..Len(ds) : ds[i] # 0 /\ \A j \in (i + 1)..Len(ds) : ds[j] = 0)

\* The digits of an integer n >= 0.
RECURSIVE Digits(_)
Digits(n) == IF n = 0 THEN << >> ELSE Digits(n \div 10) \o <<n % 10>>

\* The integer of at most 9 digits ds.
RECURSIVE NaturalOf(_)
NaturalOf(ds) ==
  IF ds = << >> THEN 0 ELSE 10 * NaturalOf(SubSeq(ds, 1, Len(ds) - 1)) + ds[Len(ds)]

\* The sum of a[i] * b[p - i] for i in lo..hi.
RECURSIVE Column(_, _, _, _, _)
Column(a, b, p, lo, hi) ==
  IF lo > hi THEN 0
  ELSE IF lo = hi THEN a[lo] * b[p - lo]
  ELSE Column(a, b, p, lo, (lo + hi) \div 2) + Column(a, b, p, (lo + hi) \div 2 + 1, hi)

\* Long multiplication before carrying: entry p of Len(a) + Len(b) sums the
\* products of the digits of a and b that weigh 10^(Len(a) + Len(b) - p).
Columns(a, b) ==
  AsSeq([p \in 1..(Len(a) + Len(b)) |->
    Column(a, b, p, Max2(1, p - Len(b)), Min2(Len(a), p - 1))])

\* One step of carrying: each entry keeps its units and takes the tens of
\* its right neighbour.
Spread(c) ==
  AsSeq([p \in 1..Len(c) |-> (c[p] % 10) + (IF p < Len(c) THEN c[p + 1] \div 10 ELSE 0)])

\* The first position behind p whose entry is not 9, Len(u) + 1 without one.
FirstNot9(u, p) ==
  CHOOSE q \in (p + 1)..(Len(u) + 1) :
    (q > Len(u) \/ u[q] # 9) /\ \A r \in (p + 1)..(q - 1) : u[r] = 9

\* The digits of entries u in 0..10: a 10 carries into the entry before it,
\* through every 9 in between.
Resolved(u) ==
  AsSeq([p \in 1..Len(u) |->
    (u[p] + (IF FirstNot9(u, p) <= Len(u) /\ u[FirstNot9(u, p)] = 10 THEN 1 ELSE 0)) % 10])

\* The digits of the number whose entries c weigh 10^(Len(c) - p) at p, for
\* a number below 10^Len(c).
RECURSIVE Carried(_)
Carried(c) ==
  IF \A p \in 1..Len(c) : c[p] <= 10 THEN StripLeadingZeros(Resolved(c))
  ELSE Carried(Spread(c))

\* a * b
Mul(a, b) == IF a = << >> \/ b = << >> THEN << >> ELSE Carried(Columns(a, b))

\* a + b
Add(a, b) ==
  Carried(AsSeq([p \in 1..(Max2(Len(a), Len(b)) + 1) |->
    (Zeros(Max2(Len(a), Len(b)) + 1 - Len(a)) \o a)[p]
      + (Zeros(Max2(Len(a), Len(b)) + 1 - Len(b)) \o b)[p]]))

\* ds + 1
Succ(ds) == Add(ds, <<1>>)

\* h * h, times b when odd: b^n from h = b^(n \div 2).
Squared(h, b, odd) == Mul(h, IF odd THEN Mul(h, Digits(b)) ELSE h)

\* b^n for a base b of 2..36.
RECURSIVE PowDigits(_, _)
PowDigits(b, n) ==
  IF n <= 5 THEN Digits(Pow(b, n))
  ELSE Squared(PowDigits(b, n \div 2), b, n % 2 = 1)

\* The decimal of the digits ds with the last n of them behind the point;
\* for n < 0 the digits are followed by -n zeros.
PointAt(ds, n) ==
  IF n < 0 THEN [int |-> ds \o Zeros(0 - n), frac |-> << >>]
  ELSE [int  |-> StripLeadingZeros(SubSeq(Zeros(n) \o ds, 1, Len(ds))),
        frac |-> SubSeq(Zeros(n) \o ds, Len(ds) + 1, Len(ds) + n)]

\* n * 10^k / 2^e as a decimal: a division by 2 is a multiplication by 5
\* and a shift of the point.
Quotient(n, k, e) ==
  PointAt(Mul(n, PowDigits(IF e >= 0 THEN 5 ELSE 2, IF e >= 0 THEN e ELSE 0 - e)),
          IF e >= 0 THEN e - k ELSE 0 - k)

\* ds \div 2^j for j <= 13: 5^13 is below 2^31.
DivPow2(ds, j) == PointAt(Mul(ds, Digits(Pow(5, j))), j).int

\* The number of bits of an integer n >= 0 below 2^31.
BitsOf(n) == Cardinality({j \in 0..30 : n >= Pow(2, j)})

\* The number of bits of ds.
RECURSIVE BitLength(_)
BitLength(ds) ==
  IF Len(ds) <= 9 THEN BitsOf(NaturalOf(ds)) ELSE 13 + BitLength(DivPow2(ds, 13))

(***************************************************************************)
(* Numbers.  A number is NaN, an infinity, or a finite double: the sign   *)
(* neg and the value mant * 2^exp, mant an odd natural number below 2^53  *)
(* and -1074 <= exp <= 971, or mant = << >> and exp = 0 for a zero.  Every *)
(* double has one such form, so that === on doubles is equality of the    *)
(* records, +0 and -0 aside.                                              *)
(***************************************************************************)
NaN == [nan |-> TRUE]

Double(neg, mant, exp) ==
  [nan |-> FALSE, inf |-> FALSE, neg |-> neg, mant |-> mant, exp |-> exp]

Infinity(neg) ==
  [nan |-> FALSE, inf |-> TRUE, neg |-> neg, mant |-> << >>, exp |-> 0]

Zero(neg) == Double(neg, << >>, 0)

\* The number of factors 2 of ds > 0, up to 9: 2^j divides 10^j, so the
\* last 9 digits decide.
Twos(ds) ==
  CHOOSE j \in 0..9 :
    /\ NaturalOf(SubSeq(ds, Max2(1, Len(ds) - 8), Len(ds))) % Pow(2, j) = 0
    /\ j = 9 \/ NaturalOf(SubSeq(ds, Max2(1, Len(ds) - 8), Len(ds))) % Pow(2, j + 1) # 0

\* The double m * 2^e, for m below 2^53 + 1 or with at most 53 bits from
\* its first 1 to its last.
RECURSIVE OddForm(_, _, _)
OddForm(neg, m, e) ==
  IF m = << >> THEN Zero(neg)
  ELSE IF m[Len(m)] % 2 = 1 THEN Double(neg, m, e)
  ELSE OddForm(neg, DivPow2(m, Twos(m)), e + Twos(m))

\* The integer nearest to the decimal d, a tie to the even one.
RoundHalfEven(d) ==
  IF StripTrailingZeros(d.frac) = << >> \/ Head(d.frac) < 5 THEN d.int
  ELSE IF StripTrailingZeros(d.frac) = <<5>> /\ (d.int = << >> \/ d.int[Len(d.int)] % 2 = 0)
    THEN d.int
  ELSE Succ(d.int)

\* An integer x with 2^x <= 10^(mag - 1): log2(10) is 3.32192809...
LowLog2(mag) ==
  IF mag >= 1 THEN ((mag - 1) * 3321928) \div 1000000
  ELSE ((mag - 1) * 3321929) \div 1000000

\* The binary exponent of the double nearest to n * 10^k, before rounding:
\* the e with 2^52 <= n * 10^k / 2^e < 2^53, and -1074 (the exponent of
\* the subnormal doubles) when that e is smaller.  first is a lower bound.
ExponentFrom(n, k, first) ==
  Max2(-1074, first + BitLength(Quotient(n, k, first).int) - 53)

Exponent(n, k) == ExponentFrom(n, k, Max2(-1074, LowLog2(Len(n) + k) - 53))

\* The double m * 2^e of a significand m <= 2^53; beyond the greatest
\* double (2^53 - 1) * 2^971 it is an infinity.
Rounded(neg, m, e) ==
  IF e > 971 \/ (e = 971 /\ m = <<9, 0, 0, 7, 1, 9, 9, 2, 5, 4, 7, 4, 0, 9, 9, 2>>)
  THEN Infinity(neg)
  ELSE OddForm(neg, m, e)

\* The double nearest to n * 10^k, the significand read at the exponent e.
NearestAt(neg, n, k, e) == Rounded(neg, RoundHalfEven(Quotient(n, k, e)), e)

\* The double nearest to n * 10^k, a tie to the even significand.  An
\* integer below 10^15 is a double itself.
NearestOf(neg, n, k) ==
  IF n = << >> THEN Zero(neg)
  ELSE IF k >= 0 /\ Len(n) + k <= 15 THEN OddForm(neg, n \o Zeros(k), 0)
  ELSE NearestAt(neg, n, k, Exponent(n, k))

\* Of more than 800 digits the rest only tells whether the number lies
\* above them.
Sticky(n) == IF Len(n) > 800 THEN SubSeq(n, 1, 800) \o <<1>> ELSE n

\* The double nearest to n * 10^k, for n with no trailing zero.  A short
\* decimal whose denominator is a power of 2 is a double itself.
Nearest(neg, n, k) ==
  IF n = << >> THEN Zero(neg)
  ELSE IF Len(n) + k > 310 THEN Infinity(neg)
  ELSE IF Len(n) + k < -330 THEN Zero(neg)
  ELSE IF k < 0 /\ k >= -12 /\ Len(n) <= 9 /\ NaturalOf(n) % Pow(5, 0 - k) = 0
    THEN Double(neg, Digits(NaturalOf(n) \div Pow(5, 0 - k)), k)
  ELSE NearestOf(neg, Sticky(n), k + Len(n) - Len(Sticky(n)))

\* The double read from the digits ds times 10^k.
DoubleOf(neg, ds, k) ==
  Nearest(neg, StripTrailingZeros(StripLeadingZeros(ds)),
          k + Len(StripLeadingZeros(ds)) - Len(StripTrailingZeros(StripLeadingZeros(ds))))

\* The digit values of a string of decimal digits.
DigitValues(s) == AsSeq([i \in 1..Len(s) |-> DigitVal10(s[i])])

\* The 1-based position of the first character of s in the set cs, or 0.
MarkOf(s, cs) ==
  IF \A i \in 1..Len(s) : s[i] \notin cs THEN 0
  ELSE CHOOSE i \in 1..Len(s) : s[i] \in cs /\ \A j \in 1..(i - 1) : s[j] \notin cs

\* The value of the digits of an ExponentPart; 10^9 stands for all greater,
\* more than the length of any string.
ExponentValue(s) ==
  IF Len(StripLeadingZeros(DigitValues(s))) > 9 THEN 1000000000
  ELSE NaturalOf(StripLeadingZeros(DigitValues(s)))

\* StrUnsignedDecimalLiteral other than Infinity: digits with an optional
\* fraction and an optional exponent.
DecimalLiteral(neg, body) ==
  LET mark == MarkOf(body, {"e", "E"})
      mant == IF mark = 0 THEN body ELSE SubSeq(body, 1, mark - 1)
      ex   == IF mark = 0 THEN << >> ELSE SubSeq(body, mark + 1, Len(body))
      exDs == IF ex # << >> /\ Head(ex) \in {"+", "-"} THEN Tail(ex) ELSE ex
      dot  == MarkOf(mant, {"."})
      ip   == IF dot = 0 THEN mant ELSE SubSeq(mant, 1, dot - 1)
      fp   == IF dot = 0 THEN << >> ELSE SubSeq(mant, dot + 1, Len(mant))
  IN IF ~IsDigits(ip) \/ ~IsDigits(fp) \/ (ip = << >> /\ fp = << >>) THEN NaN
     ELSE IF mark > 0 /\ (exDs = << >> \/ ~IsDigits(exDs)) THEN NaN
     ELSE DoubleOf(neg, DigitValues(ip) \o DigitValues(fp),
                   (IF ex # << >> /\ Head(ex) = "-" THEN 0 - ExponentValue(exDs)
                    ELSE ExponentValue(exDs)) - Len(fp))

\* The value of at most 5 digits s of radix base.
RECURSIVE RadixValue(_, _)
RadixValue(s, base) ==
  IF s = << >> THEN 0
  ELSE base * RadixValue(SubSeq(s, 1, Len(s) - 1), base) + DigitVal36(s[Len(s)])

\* The value of the digits s of radix base, from the values of its halves.
RECURSIVE RadixDigits(_, _)
RadixDigits(s, base) ==
  IF Len(s) <= 5 THEN Digits(RadixValue(s, base))
  ELSE Add(Mul(RadixDigits(SubSeq(s, 1, Len(s) \div 2), base),
               PowDigits(base, Len(s) - Len(s) \div 2)),
           RadixDigits(SubSeq(s, Len(s) \div 2 + 1, Len(s)), base))

\* NonDecimalIntegerLiteral: the digits behind 0x, 0o or 0b.
RadixLiteral(s, base) ==
  IF s = << >> \/ \E i \in 1..Len(s) : DigitVal36(s[i]) < 0 \/ DigitVal36(s[i]) >= base
  THEN NaN
  ELSE NearestOf(FALSE, RadixDigits(s, base), 0)

\* The string s without its trailing white space.
TrimEnd(s) ==
  IF \A i \in 1..Len(s) : IsWhite(s[i]) THEN << >>
  ELSE SubSeq(s, 1, CHOOSE i \in 1..Len(s) :
                      ~IsWhite(s[i]) /\ \A j \in (i + 1)..Len(s) : IsWhite(s[j]))

\* Number(s) for a string s (StringToNumber).
NumberOf(s) ==
  LET t    == TrimEnd(SkipWhite(s))
      neg  == t # << >> /\ Head(t) = "-"
      body == IF t # << >> /\ Head(t) \in {"+", "-"} THEN Tail(t) ELSE t
  IN IF t = << >> THEN Zero(FALSE)
     ELSE IF Len(t) >= 2 /\ t[1] = "0" /\ t[2] \in {"x", "X", "o", "O", "b", "B"}
       THEN RadixLiteral(SubSeq(t, 3, Len(t)),
                         IF t[2] \in {"x", "X"} THEN 16 ELSE IF t[2] \in {"o", "O"} THEN 8 ELSE 2)
     ELSE IF body = <<"I", "n", "f", "i", "n", "i", "t", "y">> THEN Infinity(neg)
     ELSE DecimalLiteral(neg, body)

\* Number.isFinite(x)
IsFinite(x) == ~x.nan /\ ~x.inf

\* The digits of the integer part of a finite number x (Math.trunc of |x|);
\* below 2^-53 the number is less than 1.
IntegerPart(x) ==
  IF x.exp < -53 THEN << >> ELSE Quotient(x.mant, 0, 0 - x.exp).int

\* ds mod 2^32, as its two 16-bit halves <<high, low>>.
RECURSIVE Mod32(_, _, _)
Mod32(ds, hi, lo) ==
  IF ds = << >> THEN <<hi, lo>>
  ELSE Mod32(Tail(ds),
             (hi * 10 + (lo * 10 + Head(ds)) \div 65536) % 65536,
             (lo * 10 + Head(ds)) % 65536)

\* 2^32 - u mod 2^32, in halves.
Negated(u) ==
  <<(65535 - u[1] + (IF u[2] = 0 THEN 1 ELSE 0)) % 65536, (65536 - u[2]) % 65536>>

\* The halves u read as a 32-bit two's-complement integer.
Signed(u) ==
  IF u[1] >= 32768 THEN (u[1] - 65536) * 65536 + u[2] ELSE u[1] * 65536 + u[2]

\* The 32-bit integer of the sign neg and the halves u of the magnitude.
Wrapped(neg, u) == Signed(IF neg THEN Negated(u) ELSE u)

\* x | 0 (ToInt32): NaN and the infinities become 0, a finite number is
\* truncated toward zero and wrapped into -2^31 .. 2^31 - 1.  With an
\* exponent of 32 or more the number is a multiple of 2^32.
ToInt(x) ==
  IF x.nan \/ x.inf \/ x.exp >= 32 THEN 0
  ELSE Wrapped(x.neg, Mod32(IntegerPart(x), 0, 0))

\* x * 2^j for a number x and j >= 0: from 2^1024 on it is an infinity.
TimesPow2(x, j) ==
  IF x.nan \/ x.inf \/ x.mant = << >> THEN x
  ELSE IF x.exp + j >= 970 /\ x.exp + j + BitLength(x.mant) > 1024 THEN Infinity(x.neg)
  ELSE Double(x.neg, x.mant, x.exp + j)

\* x * 2 for a number x.
TimesTwo(x) == TimesPow2(x, 1)

\* Whether the integer part of |x| = d is to be raised by Math.round:
\* the nearest integer, a tie toward +Infinity.
RoundsAway(neg, d) ==
  \/ ~neg /\ Head(d.frac) >= 5
  \/ neg /\ (Head(d.frac) > 5 \/ (Head(d.frac) = 5 /\ StripTrailingZeros(d.frac) # <<5>>))

\* The integer Math.round makes of the decimal |x| = d.
RoundedOff(neg, d) == OddForm(neg, IF RoundsAway(neg, d) THEN Succ(d.int) ELSE d.int, 0)

\* Math.round(x).  A number with a negative exponent has a fraction, and
\* below 2^-53 it is less than 1/2.
MathRound(x) ==
  IF x.nan \/ x.inf \/ x.exp >= 0 THEN x
  ELSE IF x.exp < -53 THEN Zero(x.neg)
  ELSE RoundedOff(x.neg, Quotient(x.mant, 0, 0 - x.exp))

\* The lesser of hi and the integer of the digits ds.
AtMost(hi, ds) == IF Len(ds) > 9 THEN hi ELSE Min2(hi, NaturalOf(ds))

\* Math.max(lo, Math.min(hi, x)) for a number x that is an integer or an
\* infinity, and integers 0 <= lo <= hi < 10^9.
MaxMin(lo, hi, x) ==
  IF x.neg THEN lo
  ELSE IF x.inf \/ x.exp > 30 THEN hi
  ELSE Max2(lo, AtMost(hi, IntegerPart(x)))

\* s without its leading "0" characters.
SkipZeros(s) ==
  IF \A i \in 1..Len(s) : s[i] = "0" THEN << >>
  ELSE SubSeq(s, CHOOSE i \in 1..Len(s) : s[i] # "0" /\ \A j \in 1..(i - 1) : s[j] = "0",
              Len(s))

\* v * m in doubles, for a double v >= 0 and an integer m > 0: the product
\* rounded to the nearest double.  A power of 2 scales a double exactly.
Times(v, m) == TimesPow2(NearestOf(FALSE, Mul(v.mant, Digits(m)), 0), v.exp)

\* x + p in doubles, for a double x >= 0 that is an integer and an integer
\* 0 <= p < 2^26.  With an exponent of 79 or more, p is less than half the
\* distance from x to the next double.
Plus(x, p) ==
  IF x.inf \/ x.exp >= 79 THEN x
  ELSE NearestOf(FALSE, Add(IntegerPart(x), Digits(p)), 0)

\* v * m + p in doubles, each of the two operations rounded.
TimesPlus(v, m, p) == Plus(Times(v, m), p)

\* The value of the base-36 digits s behind the value v of the digits before
\* them, five digits at a time: the engine multiplies v by 36^5 and adds
\* the value of the five digits, in doubles.  Up to 2^53 (ten digits) that
\* is the exact value; from there on ECMAScript leaves the result to the
\* implementation for a radix other than 2, 4, 8, 10, 16 and 32, and this
\* is the result of V8 (Node.js, Chrome).
RECURSIVE Accumulated(_, _)
Accumulated(v, s) ==
  IF v.inf \/ s = << >> THEN v
  ELSE Accumulated(TimesPlus(v, Pow(36, Min2(5, Len(s))),
                             RadixValue(SubSeq(s, 1, Min2(5, Len(s))), 36)),
                   SubSeq(s, Min2(5, Len(s)) + 1, Len(s)))

\* v with the sign neg.
WithSign(neg, v) == [v EXCEPT !.neg = neg]

\* parseInt(s, 36): leading white space, an optional sign, then the longest
\* prefix of base-36 digits; NaN when that prefix is empty.
ParseInt36(s) ==
  LET t    == SkipWhite(s)
      neg  == t # << >> /\ Head(t) = "-"
      body == IF t # << >> /\ Head(t) \in {"+", "-"} THEN Tail(t) ELSE t
  IN IF DigitPrefix36(body) = << >> THEN NaN
     ELSE WithSign(neg, Accumulated(Zero(FALSE), SkipZeros(DigitPrefix36(body))))

\* n.toString(36) for an integer n >= 0.
RECURSIVE ToString36(_)
ToString36(n) ==
  IF n < 36 THEN <<Base36Digits[n + 1]>>
  ELSE ToString36(n \div 36) \o <<Base36Digits[(n % 36) + 1]>>

(***************************************************************************)
(* base64url helpers (utils.js)                                            *)
(***************************************************************************)
\* btoa of a byte string: 3 bytes -> 4 characters, "=" padded.
RECURSIVE Btoa(_)
Btoa(bytes) ==
  IF bytes = << >> THEN << >>
  ELSE IF Len(bytes) = 1 THEN
    <<B64Alphabet[(bytes[1] \div 4) + 1],
      B64Alphabet[((bytes[1] % 4) * 16) + 1], "=", "=">>
  ELSE IF Len(bytes) = 2 THEN
    <<B64Alphabet[(bytes[1] \div 4) + 1],
      B64Alphabet[((bytes[1] % 4) * 16 + bytes[2] \div 16) + 1],
      B64Alphabet[((bytes[2] % 16) * 4) + 1], "=">>
  ELSE
    <<B64Alphabet[(bytes[1] \div 4) + 1],
      B64Alphabet[((bytes[1] % 4) * 16 + bytes[2] \div 16) + 1],
      B64Alphabet[((bytes[2] % 16) * 4 + bytes[3] \div 64) + 1],
      B64Alphabet[(bytes[3] % 64) + 1]>>
    \o Btoa(SubSeq(bytes, 4, Len(bytes)))

\* s.replace(/from/g, to) for a one-character pattern.
ReplaceAll(s, from, to) == AsSeq([i \in 1..Len(s) |-> IF s[i] = from THEN to ELSE s[i]])

\* s.replace(/=+$/g, "")
RECURSIVE StripTrailingEq(_)
StripTrailingEq(s) ==
  IF s # << >> /\ s[Len(s)] = "=" THEN StripTrailingEq(SubSeq(s, 1, Len(s) - 1)) ELSE s

bytesToB64Url(bytes) ==
  StripTrailingEq(ReplaceAll(ReplaceAll(Btoa(bytes), "+", "-"), "/", "_"))

\* while (s.length % 4 !== 0) s += "="
RECURSIVE PadTo4(_)
PadTo4(s) == IF Len(s) % 4 = 0 THEN s ELSE PadTo4(s \o <<"=">>)

\* s without its ASCII whitespace.
RECURSIVE RemoveWhite(_)
RemoveWhite(s) ==
  IF s = << >> THEN << >>
  ELSE IF IsAsciiWhite(Head(s)) THEN RemoveWhite(Tail(s))
  ELSE <<Head(s)>> \o RemoveWhite(Tail(s))

\* The bytes of a run of alphabet characters: 4 characters -> 3 bytes, a
\* final run of 2 -> 1 byte, of 3 -> 2 bytes, surplus bits dropped.
RECURSIVE B64Bytes(_)
B64Bytes(cs) ==
  LET v(i) == B64Val(cs[i])
  IN IF Len(cs) < 2 THEN << >>
     ELSE IF Len(cs) = 2 THEN <<v(1) * 4 + v(2) \div 16>>
     ELSE IF Len(cs) = 3 THEN
       <<v(1) * 4 + v(2) \div 16, (v(2) % 16) * 16 + v(3) \div 4>>
     ELSE
       <<v(1) * 4 + v(2) \div 16, (v(2) % 16) * 16 + v(3) \div 4,
         (v(3) % 4) * 64 + v(4)>>
       \o B64Bytes(SubSeq(cs, 5, Len(cs)))

\* atob (forgiving-base64 decode).  [ok |-> FALSE] is the thrown
\* InvalidCharacterError.
Atob(s) ==
  LET a == RemoveWhite(s)
      b == IF Len(a) % 4 = 0 /\ Len(a) >= 2 /\ a[Len(a)] = "=" /\ a[Len(a) - 1] = "="
             THEN SubSeq(a, 1, Len(a) - 2)
           ELSE IF Len(a) % 4 = 0 /\ Len(a) >= 1 /\ a[Len(a)] = "="
             THEN SubSeq(a, 1, Len(a) - 1)
           ELSE a
  IN IF Len(b) % 4 = 1 THEN [ok |-> FALSE]
     ELSE IF \E i \in 1..Len(b) : B64Val(b[i]) < 0 THEN [ok |-> FALSE]
     ELSE [ok |-> TRUE, bytes |-> B64Bytes(b)]

b64UrlToBytes(s) == Atob(PadTo4(ReplaceAll(ReplaceAll(s, "-", "+"), "_", "/")))

(***************************************************************************)
(* Relic levels: 12 values, each 1..11, stored as 4-bit fields level-1     *)
(***************************************************************************)
\* clampRelicLv on a finite integer.
clampRelicLv(v) == Max2(RelicLvMin, Min2(RelicLvMax, v))

\* The 48-bit BigInt n of packRelicLevels and unpackRelicLevels is held as
\* its 12 hexadecimal digits, most significant first: digit i is the field
\* (n >> (12 - i) * 4) & 0xf.  The fields written by n |= (v << shift) do
\* not overlap, so digit i is v of slot i.
PackFields(levels) == AsSeq([i \in 1..12 |-> (clampRelicLv(levels[i]) - 1) % 16])

\* bytes[i] = Number((n >> shift) & 0xffn), most significant byte first.
BytesOf48(n) == AsSeq([i \in 1..6 |-> n[2 * i - 1] * 16 + n[2 * i]])

packRelicLevels(levels) == bytesToB64Url(BytesOf48(PackFields(levels)))

\* IntOfBytes taking the low half of each byte first.
IntOfBytes_LowNibbleFirst(bytes) ==
  AsSeq([i \in 1..12 |-> IF i % 2 = 1 THEN bytes[(i + 1) \div 2] % 16
                         ELSE bytes[i \div 2] \div 16])

\* n = (n << 8n) | BigInt(bytes[i]) over the 6 bytes.
IntOfBytes(bytes) ==
  AsSeq([i \in 1..12 |-> IF i % 2 = 1 THEN bytes[(i + 1) \div 2] \div 16
                         ELSE bytes[i \div 2] % 16])

\* UnpackField without the + 1 that undoes the stored level - 1.
UnpackField_NoPlusOne(n, i) == clampRelicLv(n[i])

\* The level read from the 4-bit field of slot i (1-based).
UnpackField(n, i) == clampRelicLv(n[i] + 1)

\* The levels of the decoded bytes dec: [thrown |-> TRUE] when atob threw,
\* NoValue for null, Some(levels).
LevelsOfBytes(dec) ==
  IF ~dec.ok THEN [thrown |-> TRUE]
  ELSE IF Len(dec.bytes) # 6 THEN NoValue
  ELSE Some(AsSeq([i \in 1..12 |-> UnpackField(IntOfBytes(dec.bytes), i)]))

\* [thrown |-> TRUE] when atob throws, NoValue for null, Some(levels).
unpackRelicLevels(rStr) == LevelsOfBytes(b64UrlToBytes(rStr))

\* parseRelicParam without the try / catch around unpackRelicLevels.
parseRelicParam_NoCatch(r) ==
  IF ~r.some \/ r.val = << >> THEN NoValue
  ELSE IF Len(r.val) = 1 THEN
    LET lv == ParseInt36(r.val)
    IN IF IsFinite(lv) /\ ToInt(lv) >= 1 /\ ToInt(lv) <= 11
       THEN Some(AsSeq([i \in 1..Len(RELIC_KEYS) |-> ToInt(lv)]))
       ELSE NoValue
  ELSE unpackRelicLevels(r.val)

\* try { return res } catch { return null }
Caught(res) == IF "thrown" \in DOMAIN res THEN NoValue ELSE res

\* r is NoValue (null) or Some(string).
parseRelicParam(r) ==
  IF ~r.some \/ r.val = << >> THEN NoValue
  ELSE IF Len(r.val) = 1 THEN
    LET lv == ParseInt36(r.val)
    IN IF IsFinite(lv) /\ ToInt(lv) >= 1 /\ ToInt(lv) <= 11
       THEN Some(AsSeq([i \in 1..Len(RELIC_KEYS) |-> ToInt(lv)]))
       ELSE NoValue
  ELSE Caught(unpackRelicLevels(r.val))

\* String(k) for an integer k >= 0.
RECURSIVE ToString10(_)
ToString10(k) ==
  IF k < 10 THEN <<DigitChars[k + 1]>>
  ELSE ToString10(k \div 10) \o <<DigitChars[(k % 10) + 1]>>

(***************************************************************************)
(* clampRelicLv on any value.  A value is [t |-> "number", x |-> a number  *)
(* or NaN], [t |-> "infinity"], [t |-> "-infinity"] or                     *)
(* [t |-> "undefined"].  clampRelicLv above is its last line, on the       *)
(* integer Math.trunc leaves.                                              *)
(***************************************************************************)
NumberValue(n, d) == [t |-> "number", x |-> [nan |-> FALSE, num |-> n, den |-> d]]

\* levels[i] ?? 1
OrOne(v) == IF v.t = "undefined" THEN NumberValue(1, 1) ELSE v

\* Number.isFinite(v)
NumberIsFinite(v) == v.t = "number" /\ ~v.x.nan

\* Math.trunc(x) for a finite number x.
MathTrunc(x) ==
  IF x.num >= 0 THEN x.num \div x.den ELSE 0 - ((0 - x.num) \div x.den)

\* clampRelicLvOf with Math.round in place of Math.trunc.
clampRelicLvOf_Rounds(v) ==
  IF ~NumberIsFinite(v) THEN RelicLvMin
  ELSE clampRelicLv((2 * v.x.num + v.x.den) \div (2 * v.x.den))

clampRelicLvOf(v) ==
  IF ~NumberIsFinite(v) THEN RelicLvMin ELSE clampRelicLv(MathTrunc(v.x))

\* lv of packRelicLevels for each of the 12 slots.
LevelsOfValues(values) == AsSeq([i \in 1..12 |-> clampRelicLvOf(OrOne(values[i]))])

(***************************************************************************)
(* Other buffs                                                             *)
(***************************************************************************)
\* PackGuild without Math.max / Math.min: the value only meets the & 3.
PackGuild_MaskOnly(guildBlessing) == ToInt(NumberOf(guildBlessing))

\* g of packOtherBuffs.
PackGuild(guildBlessing) == Max2(0, Min2(3, ToInt(NumberOf(guildBlessing))))

\* PackUnit without the clamp to 0..50.
PackUnit_NoClamp(unitLevelSumBuff) ==
  LET x == NumberOf(unitLevelSumBuff)
  IN IF x.nan THEN 0 ELSE ToInt(MathRound(TimesTwo(x))) % 64

\* u2 & 63 of packOtherBuffs; Math.max / Math.min keep a NaN, and NaN & 63 is 0.
PackUnit(unitLevelSumBuff) ==
  LET x == NumberOf(unitLevelSumBuff)
  IN IF x.nan THEN 0 ELSE MaxMin(0, 50, MathRound(TimesTwo(x))) % 64

\* p of packOtherBuffs.
PackPet(petLevelSum) ==
  LET pIdxRaw == IndexOf(PET_LEVEL_SUM_VALUES, petLevelSum)
  IN (IF pIdxRaw >= 0 THEN pIdxRaw ELSE 0) % 4

PackedInt(other) ==
  (PackGuild(other.guildBlessing) % 4) * 256
    + PackUnit(other.unitLevelSumBuff) * 4
    + (PackPet(other.petLevelSum) % 4)

packOtherBuffs(other) == ToString36(PackedInt(other))

\* UnitString with String(val) in place of val.toFixed(1).
UnitString_NoFixed(u2) ==
  IF u2 = 0 THEN <<"0">>
  ELSE IF u2 % 2 = 0 THEN ToString10(u2 \div 2)
  ELSE ToString10(u2 \div 2) \o <<".", "5">>

\* The unitLevelSumBuff string of unpackOtherBuffs.
UnitString(u2) ==
  IF u2 = 0 THEN <<"0">>
  ELSE IF u2 % 2 = 0 THEN ToString10(u2 \div 2) \o <<".", "0">>
  ELSE ToString10(u2 \div 2) \o <<".", "5">>

\* PetOfIndex falling back to the last token of the list.
PetOfIndex_LastOnMiss(p) ==
  IF p + 1 \in DOMAIN PET_LEVEL_SUM_VALUES
  THEN PET_LEVEL_SUM_VALUES[p + 1]
  ELSE PET_LEVEL_SUM_VALUES[Len(PET_LEVEL_SUM_VALUES)]

\* PET_LEVEL_SUM_VALUES[p] ?? OTHER_DEFAULTS.petLevelSum
PetOfIndex(p) ==
  IF p + 1 \in DOMAIN PET_LEVEL_SUM_VALUES
  THEN PET_LEVEL_SUM_VALUES[p + 1]
  ELSE OTHER_DEFAULTS.petLevelSum

unpackOtherBuffs(oStr) ==
  LET n == ParseInt36(oStr)
  IN IF ~IsFinite(n) THEN NoValue
     ELSE Some([guildBlessing    |-> ToString10((ToInt(n) \div 256) % 4),
                unitLevelSumBuff |-> UnitString((ToInt(n) \div 4) % 64),
                petLevelSum      |-> PetOfIndex(ToInt(n) % 4)])

(***************************************************************************)
(* Option lists of the selects                                             *)
(***************************************************************************)
\* levelOptions(max, _): the option values 1..max, in order.
levelOptions(max) == AsSeq([i \in 1..max |-> i])

\* max2 of populateUnitLevelSumBuffSelect.
UnitMax2 == 50

\* valueStr of populateUnitLevelSumBuffSelect for the doubled value v2.
UnitOptionValue(v2) ==
  IF v2 = 0 THEN <<"0">>
  ELSE IF v2 % 2 = 0 THEN ToString10(v2 \div 2) \o <<".", "0">>
  ELSE ToString10(v2 \div 2) \o <<".", "5">>

UnitOptions == AsSeq([i \in 1..(UnitMax2 + 1) |-> UnitOptionValue(i - 1)])

\* The option values of the guildBlessing and petLevelSum selects.
GuildOptions == <<(<<"0">>), (<<"1">>), (<<"2">>), (<<"3">>)>>
PetOptions == PET_LEVEL_SUM_VALUES

\* select.value = v: the option of that value becomes selected; without
\* such an option none is, and select.value then reads "".
SelectValue(options, v) == IF IndexOf(options, v) >= 0 THEN v ELSE << >>

(***************************************************************************)
(* URLSearchParams: the query as a list of key / value pairs               *)
(***************************************************************************)
\* params.get(key): the first value, or null.
RECURSIVE SearchGet(_, _)
SearchGet(params, key) ==
  IF params = << >> THEN NoValue
  ELSE IF Head(params).key = key THEN Some(Head(params).value)
  ELSE SearchGet(Tail(params), key)

\* params.delete(key): drops every pair of that key.
RECURSIVE SearchDelete(_, _)
SearchDelete(params, key) ==
  IF params = << >> THEN << >>
  ELSE IF Head(params).key = key THEN SearchDelete(Tail(params), key)
  ELSE <<Head(params)>> \o SearchDelete(Tail(params), key)

\* params.set(key, value): the first pair of that key takes the value and
\* the later ones are dropped; without such a pair, one is appended.
RECURSIVE SearchSet(_, _, _)
SearchSet(params, key, value) ==
  IF params = << >> THEN <<[key |-> key, value |-> value]>>
  ELSE IF Head(params).key = key
    THEN <<[key |-> key, value |-> value]>> \o SearchDelete(Tail(params), key)
  ELSE <<Head(params)>> \o SearchSet(Tail(params), key, value)

(***************************************************************************)
(* The controls (dom.js `el`) as a record:                                 *)
(*   relics            the 12 relic selects, in RELIC_KEYS order           *)
(*   allRelicLv        the summary relic-level select                      *)
(*   guildBlessing, unitLevelSumBuff, petLevelSum   the other-buff selects *)
(***************************************************************************)
getRelicLevelsFromUI(ui) == AsSeq([i \in 1..Len(RELIC_KEYS) |-> clampRelicLv(ui.relics[i])])

setRelicLevelsToUI(ui, levels) ==
  IF Len(levels) # Len(RELIC_KEYS) THEN ui
  ELSE [ui EXCEPT !.relics = AsSeq([i \in 1..Len(RELIC_KEYS) |-> clampRelicLv(levels[i])])]

getOtherBuffsFromUI(ui) ==
  [guildBlessing    |-> ui.guildBlessing,
   unitLevelSumBuff |-> ui.unitLevelSumBuff,
   petLevelSum      |-> ui.petLevelSum]

\* levels.every(v => v === levels[0])
AllSame(levels) == \A i \in 1..Len(levels) : levels[i] = levels[1]

(***************************************************************************)
(* applyStateFromUrl                                                       *)
(***************************************************************************)
\* RelicLevelsApplied resetting the relic selects to level 1 when r gives
\* no levels.
RelicLevelsApplied_ResetsOnInvalid(ui, relicLevels) ==
  IF relicLevels.some
  THEN [el |-> [setRelicLevelsToUI(ui, relicLevels.val) EXCEPT
                  !.allRelicLv = IF AllSame(relicLevels.val)
                                 THEN relicLevels.val[1] ELSE @],
        applied |-> TRUE]
  ELSE [el |-> setRelicLevelsToUI(ui, AsSeq([i \in 1..Len(RELIC_KEYS) |-> 1])),
        applied |-> FALSE]

\* RelicLevelsApplied leaving the summary level control as it is.
RelicLevelsApplied_NoSummary(ui, relicLevels) ==
  IF relicLevels.some
  THEN [el |-> setRelicLevelsToUI(ui, relicLevels.val), applied |-> TRUE]
  ELSE [el |-> ui, applied |-> FALSE]

\* if (relicLevels) { ... }: the controls and appliedRelic after it.
RelicLevelsApplied(ui, relicLevels) ==
  IF relicLevels.some
  THEN [el |-> [setRelicLevelsToUI(ui, relicLevels.val) EXCEPT
                  !.allRelicLv = IF AllSame(relicLevels.val)
                                 THEN relicLevels.val[1] ELSE @],
        applied |-> TRUE]
  ELSE [el |-> ui, applied |-> FALSE]

\* The relic half: r is params.get("r").
ApplyRelic(ui, r) == RelicLevelsApplied(ui, parseRelicParam(r))

\* OtherStateApplied setting appliedOther outside the test of the decoded
\* record.
OtherStateApplied_FlagOnPresence(ui, st) ==
  IF st.some
  THEN [el |-> [ui EXCEPT
                 !.guildBlessing = SelectValue(GuildOptions, st.val.guildBlessing),
                 !.unitLevelSumBuff = SelectValue(UnitOptions, st.val.unitLevelSumBuff),
                 !.petLevelSum = SelectValue(PetOptions, st.val.petLevelSum)],
        applied |-> TRUE]
  ELSE [el |-> ui, applied |-> TRUE]

\* if (st) { ... }: the controls and appliedOther after it.
OtherStateApplied(ui, st) ==
  IF st.some
  THEN [el |-> [ui EXCEPT
                 !.guildBlessing = SelectValue(GuildOptions, st.val.guildBlessing),
                 !.unitLevelSumBuff = SelectValue(UnitOptions, st.val.unitLevelSumBuff),
                 !.petLevelSum = SelectValue(PetOptions, st.val.petLevelSum)],
        applied |-> TRUE]
  ELSE [el |-> ui, applied |-> FALSE]

\* The other-buffs half: o is params.get("o").
ApplyOther(ui, o) ==
  IF o.some /\ o.val # << >>
  THEN OtherStateApplied(ui, unpackOtherBuffs(o.val))
  ELSE [el |-> ui, applied |-> FALSE]

\* return { appliedRelic, appliedOther }, with the controls.
ApplyResult(a, b) == [el |-> b.el, appliedRelic |-> a.applied, appliedOther |-> b.applied]

\* OtherAfterRelic returning early when no relic levels were decoded.
OtherAfterRelic_Chained(a, o) ==
  IF a.applied THEN ApplyResult(a, ApplyOther(a.el, o))
  ELSE ApplyResult(a, [el |-> a.el, applied |-> FALSE])

\* The other-buffs half runs on the controls the relic half left,
\* whatever the relic half did.
OtherAfterRelic(a, o) == ApplyResult(a, ApplyOther(a.el, o))

applyStateFromUrl(ui, loc) ==
  OtherAfterRelic(ApplyRelic(ui, SearchGet(loc.params, "r")), SearchGet(loc.params, "o"))

(***************************************************************************)
(* persistStateToUrl                                                       *)
(*                                                                         *)
(* location is [pathname, params, serialized, hash]: params is the list    *)
(* URLSearchParams parses from location.search, and serialized says        *)
(* whether location.search is, character for character, "?" followed by    *)
(* params.toString() (or empty for an empty list).  A hand-written query   *)
(* such as "?a=b c" or "?a" parses to a list but is not its                *)
(* serialisation.                                                          *)
(***************************************************************************)
\* PersistRelic without the allDefaultRelic branch: r is always set.
PersistRelic_AlwaysSet(ui, params) ==
  LET levels == getRelicLevelsFromUI(ui)
  IN SearchSet(params, "r",
               IF AllSame(levels) THEN ToString36(levels[1])
               ELSE packRelicLevels(levels))

\* PersistRelic with levels[0].toString() in place of toString(36).
PersistRelic_Decimal(ui, params) ==
  LET levels == getRelicLevelsFromUI(ui)
  IN IF \A i \in 1..Len(levels) : levels[i] = 1
     THEN SearchDelete(params, "r")
     ELSE SearchSet(params, "r",
                    IF AllSame(levels) THEN ToString10(levels[1])
                    ELSE packRelicLevels(levels))

PersistRelic(ui, params) ==
  LET levels == getRelicLevelsFromUI(ui)
  IN IF \A i \in 1..Len(levels) : levels[i] = 1
     THEN SearchDelete(params, "r")
     ELSE SearchSet(params, "r",
                    IF AllSame(levels) THEN ToString36(levels[1])
                    ELSE packRelicLevels(levels))

\* x === y on numbers: NaN equals nothing.
NumEq(x, y) ==
  /\ ~x.nan /\ ~y.nan
  /\ x = y \/ (~x.inf /\ ~y.inf /\ x.mant = << >> /\ y.mant = << >>)

otherIsDefault(other) ==
  /\ other.guildBlessing = OTHER_DEFAULTS.guildBlessing
  /\ NumEq(NumberOf(other.unitLevelSumBuff), NumberOf(OTHER_DEFAULTS.unitLevelSumBuff))
  /\ other.petLevelSum = OTHER_DEFAULTS.petLevelSum

PersistOther(ui, params) ==
  LET other == getOtherBuffsFromUI(ui)
  IN IF otherIsDefault(other)
     THEN SearchDelete(params, "o")
     ELSE SearchSet(params, "o", packOtherBuffs(other))

\* NewUrl built from an empty URLSearchParams instead of location.search.
NewUrl_FreshParams(ui, loc) ==
  [pathname   |-> loc.pathname,
   params     |-> PersistOther(ui, PersistRelic(ui, << >>)),
   serialized |-> TRUE,
   hash       |-> loc.hash]

\* newUrl, as the location it denotes.
NewUrl(ui, loc) ==
  [pathname   |-> loc.pathname,
   params     |-> PersistOther(ui, PersistRelic(ui, loc.params)),
   serialized |-> TRUE,
   hash       |-> loc.hash]

\* persistStateToUrl without the comparison: replaceState on every call.
UrlDiffers_Always(newUrl, loc) == TRUE

\* newUrl !== curUrl
UrlDiffers(newUrl, loc) == newUrl # loc

\* The location after the call, and whether history.replaceState ran.
persistStateToUrl(ui, loc) ==
  LET newUrl == NewUrl(ui, loc)
  IN IF UrlDiffers(newUrl, loc)
     THEN [location |-> newUrl, replaced |-> TRUE]
     ELSE [location |-> loc, replaced |-> FALSE]

\* The declared domain of OtherBuffs records.
OtherRecords ==
  [guildBlessing    : {GuildOptions[i] : i \in DOMAIN GuildOptions},
   unitLevelSumBuff : {UnitOptions[i] : i \in DOMAIN UnitOptions},
   petLevelSum      : {PetOptions[i] : i \in DOMAIN PetOptions}]

\* The controls as init() leaves them before applyStateFromUrl.
DefaultControls ==
  [relics           |-> AsSeq([i \in 1..Len(RELIC_KEYS) |-> 1]),
   allRelicLv       |-> 1,
   guildBlessing    |-> OTHER_DEFAULTS.guildBlessing,
   unitLevelSumBuff |-> <<"0">>,
   petLevelSum      |-> OTHER_DEFAULTS.petLevelSum]

\* syncRelicLevelsFromAllRelic
syncRelicLevelsFromAllRelic(ui) ==
  [ui EXCEPT !.relics = AsSeq([i \in 1..Len(RELIC_KEYS) |-> ui.allRelicLv])]

(***************************************************************************)
(* Bounds                                                                  *)
(***************************************************************************)
\* User edits of a control per page session.
MaxEdits == 1
\* Relic slots that differ from the common level in a codec input.
MaxDiff == 1
\* Length of a relic token handed to the decoder.
MaxTokLen == 9
\* Member rows created per page session (state.memberSeq).
MaxMemberSeq == 3
\* Compute requests issued per page session.
MaxRequests == 2
\* User operations and settled requests per page session.
MaxPartyOps == 4

(***************************************************************************)
(* State                                                                   *)
(***************************************************************************)
VARIABLES
  el,            \* the values of the controls
  location,      \* [pathname, params, serialized, hash]
  phase,         \* "start", "loading" (init awaiting its fetches), "ready"
  applied,       \* what the last applyStateFromUrl returned
  lastOp,        \* the last operation that ran
  replaced,      \* whether the last persistStateToUrl called history.replaceState
  replacedPrev,  \* the same for the persistStateToUrl call right before it
  nEdits,        \* user edits so far
  codecOp,       \* codec harness: the last codec function applied
  codecIn,       \* codec harness: the input
  codecTok,      \* codec harness: the token produced by the encoder, if any
  codecOut,      \* codec harness: the result
  party,         \* [rows, memberSeq]: the member rows of el.partyList and state.memberSeq
  calc,          \* [busy, totalValue, log, pending, issued]: recalc's display and requests
  autoRecalc,    \* el.autoRecalc.checked
  partyOp,       \* the last party or recalc operation that ran
  hist           \* history of the party and of the requests, for the properties

pageVars == <<el, location, phase, applied, lastOp, replaced, replacedPrev, nEdits>>
codecVars == <<codecOp, codecIn, codecTok, codecOut>>
partyVars == <<party, calc, autoRecalc, partyOp, hist>>
vars == <<el, location, phase, applied, lastOp, replaced, replacedPrev, nEdits,
          codecOp, codecIn, codecTok, codecOut,
          party, calc, autoRecalc, partyOp, hist>>

\* Query values and locations a page can be opened with.
StartRelicTokens ==
  { NoValue, Some(<< >>), Some(<<"3">>), Some(<<"8">>), Some(<<"B">>), Some(<<"c">>),
    Some(<<"!", "!">>), Some(<<"A", "S", "N", "F">>),
    Some(<<"A", "S", "N", "F", "Z", "4", "m", "g">>), Some(<<"\t">>), Some(<<"\n", "5">>),
    Some(<<"A", "S", "N", "F", "\t", "\t", "Z", "4", "m", "g", "\n", "\n">>) }

StartOtherTokens ==
  { NoValue, Some(<< >>), Some(<<"0">>), Some(<<"f", "2">>), Some(<<"!", "!">>),
    Some(<<"5", "o">>), Some(<<"\t", "f", "2">>), Some(<<"\n", "r", "r">>), Some(<<"U+00A0", "7">>),
    Some(<<"U+3000", "f", "2">>), Some(<<"U+00E9", "f", "2">>),
    Some(<<" ">>) }

ParamsOf(r, o) ==
  (IF r.some THEN <<[key |-> "r", value |-> r.val]>> ELSE << >>)
    \o (IF o.some THEN <<[key |-> "o", value |-> o.val]>> ELSE << >>)

StartParams ==
  {ParamsOf(r, NoValue) : r \in StartRelicTokens}
    \cup {ParamsOf(NoValue, o) : o \in StartOtherTokens}
    \cup { ParamsOf(Some(<<"!", "!">>), Some(<<"f", "2">>)),
           ParamsOf(Some(<<"c">>), Some(<<"0">>)),
           ParamsOf(Some(<<"A", "S", "N", "F">>), Some(<<"q", "y">>)),
           ParamsOf(Some(<<"A", "S", "N", "F", "Z", "4", "m", "g">>), Some(<<"!", "!">>)),
           ParamsOf(Some(<<"B">>), Some(<< >>)),
           ParamsOf(Some(<<"3">>), Some(<<"f", "2">>)),
           <<[key |-> "a", value |-> <<"1">>], [key |-> "r", value |-> <<"5">>],
             [key |-> "b", value |-> <<"2">>], [key |-> "r", value |-> <<"7">>]>>,
           <<[key |-> "o", value |-> <<"q", "y">>], [key |-> "a", value |-> <<"1">>],
             [key |-> "o", value |-> <<"0">>], [key |-> "b", value |-> << >>]>>,
           <<[key |-> "a", value |-> <<"1">>], [key |-> "a", value |-> <<"2">>]>> }

StartLocations ==
  {[pathname |-> "/", params |-> ps, serialized |-> TRUE, hash |-> ""] : ps \in StartParams}
    \cup {[pathname |-> "/sim", params |-> ps, serialized |-> FALSE, hash |-> "#top"] :
            ps \in { << >>,
                     <<[key |-> "a", value |-> <<"1">>]>>,
                     <<[key |-> "r", value |-> <<"3">>], [key |-> "a", value |-> <<"x", " ", "y">>]>>,
                     <<[key |-> "o", value |-> <<"f", "2">>]>> }}

CodecIdle ==
  /\ codecOp = "off"
  /\ codecIn = NoValue
  /\ codecTok = NoValue
  /\ codecOut = NoValue

\* The party and recalc state before init() reaches them.
NoParty == [rows |-> << >>, memberSeq |-> 0]

NoCalc == [busy |-> FALSE, totalValue |-> NoValue, log |-> NoValue,
           pending |-> {}, issued |-> 0]

NoHist == [created |-> << >>, leftLv |-> << >>, lastMembers |-> << >>,
           lastOutcome |-> NoValue, ops |-> 0]

PartyIdle ==
  /\ party = NoParty
  /\ calc = NoCalc
  /\ partyOp = [op |-> "off"]
  /\ hist = NoHist

Init ==
  /\ el = DefaultControls
  /\ location \in StartLocations
  /\ phase = "start"
  /\ applied = [appliedRelic |-> FALSE, appliedOther |-> FALSE]
  /\ lastOp = "none"
  /\ replaced = FALSE
  /\ replacedPrev = FALSE
  /\ nEdits = 0
  /\ CodecIdle
  /\ PartyIdle
  /\ autoRecalc \in BOOLEAN

(***************************************************************************)
(* The party list and recalc.  A member row is                             *)
(* [id, character, treasureLv, savedTreasureLv, disabled, dps]: its        *)
(* data-member-id, the values of its character and treasure-level selects, *)
(* dataset.savedTreasureLv, the disabled flag of the treasure-level select *)
(* and the number shown in .member-dps.  A request in flight is            *)
(* [req, members]: its number and the ids of the rows getPartyMembers      *)
(* returned when it was issued.                                            *)
(***************************************************************************)
ALLOWED_CHARACTER_IDS ==
  << "5008", "5013", "5016", "5019", "5020", "5021", "5106", "5109", "5115",
     "5104", "5204", "15004", "14002", "15021", "15024", "15009", "15109" >>

ALLOWLIST_EMPTY_MEANS_ALL == FALSE

\* obj.characters of /data/characters.json, the file the page is served
\* with: two mythic and two other characters of the allow list, in another
\* order than the allow list has them, and one character that is not on it.
CharactersJson ==
  << [id |-> "15024", rarity |-> "immortal"],
     [id |-> "5106",  rarity |-> "mythic"],
     [id |-> "9999",  rarity |-> "legendary"],
     [id |-> "15021", rarity |-> "immortal"],
     [id |-> "5008",  rarity |-> "mythic"] >>

\* new Map(all.map(c => [String(c.id), c])).get(id): the last character of
\* that id, NoValue for undefined.
MapGet(all, id) ==
  IF \A i \in 1..Len(all) : all[i].id # id THEN NoValue
  ELSE Some(all[CHOOSE i \in 1..Len(all) :
                  all[i].id = id /\ \A j \in (i + 1)..Len(all) : all[j].id # id])

\* ALLOWED_CHARACTER_IDS.map(id => map.get(String(id))).filter(Boolean)
RECURSIVE AllowedOf(_, _)
AllowedOf(all, ids) ==
  IF ids = << >> THEN << >>
  ELSE (IF MapGet(all, Head(ids)).some THEN <<MapGet(all, Head(ids)).val>> ELSE << >>)
         \o AllowedOf(all, Tail(ids))

\* state.CHARACTERS as init() builds it from obj.characters: the characters
\* of the allow list in the order of the allow list, or all of them when
\* none matches.
LoadCharacters(all) ==
  IF Len(ALLOWED_CHARACTER_IDS) = 0 /\ ALLOWLIST_EMPTY_MEANS_ALL THEN all
  ELSE IF AllowedOf(all, ALLOWED_CHARACTER_IDS) = << >> THEN all
  ELSE AllowedOf(all, ALLOWED_CHARACTER_IDS)

\* state.CHARACTERS once init() has loaded characters.json.
CHARACTERS == LoadCharacters(CharactersJson)

\* Treasure levels the user picks in a row.
TreasurePicks == {1, 5, 11}

\* `m${k}`
MemberId(k) == <<"m", k>>

\* getSelectedCharacterObj()?.rarity === "mythic"
IsMythic(characterId) ==
  \E i \in 1..Len(CHARACTERS) :
    CHARACTERS[i].id = characterId /\ CHARACTERS[i].rarity = "mythic"

updateTreasureVisibility(row) ==
  IF IsMythic(row.character)
  THEN [row EXCEPT !.treasureLv = IF row.savedTreasureLv.some
                                  THEN row.savedTreasureLv.val ELSE @,
                   !.disabled = FALSE]
  ELSE [row EXCEPT !.savedTreasureLv = Some(row.treasureLv),
                   !.treasureLv = 1,
                   !.disabled = TRUE]

\* The row addMember builds, before its first updateTreasureVisibility.
NewRow(k, characterId, treasureLv) ==
  [id |-> MemberId(k), character |-> characterId, treasureLv |-> treasureLv,
   savedTreasureLv |-> NoValue, disabled |-> FALSE, dps |-> NoValue]

\* addMember giving every row the id of the first.
addMember_SameId(p, characterId, treasureLv) ==
  [rows |-> Append(p.rows, updateTreasureVisibility(NewRow(1, characterId, treasureLv))),
   memberSeq |-> p.memberSeq + 1]

addMember(p, characterId, treasureLv) ==
  [rows |-> Append(p.rows,
                   updateTreasureVisibility(NewRow(p.memberSeq + 1, characterId, treasureLv))),
   memberSeq |-> p.memberSeq + 1]

\* seq without its element i.
Without(seq, i) == SubSeq(seq, 1, i - 1) \o SubSeq(seq, i + 1, Len(seq))

\* The remove handler without the fresh row for an emptied list.
RemoveRow_NoRefill(p, i) == [p EXCEPT !.rows = Without(@, i)]

\* The remove handler up to its recalc: row.remove(), then a default row
\* if the list is empty.
RemoveRow(p, i) ==
  IF Len(Without(p.rows, i)) = 0
  THEN addMember([p EXCEPT !.rows = << >>], CHARACTERS[1].id, 1)
  ELSE [p EXCEPT !.rows = Without(@, i)]

\* The ids of the rows getPartyMembers returns.
MemberIds(rows) == AsSeq([i \in 1..Len(rows) |-> rows[i].id])

\* setBusy(isBusy)
setBusy(c, isBusy) == [c EXCEPT !.busy = isBusy]

\* recalc up to its await: the request is in flight.
recalc(c, rows) ==
  IF Len(rows) = 0 THEN c
  ELSE [setBusy(c, TRUE) EXCEPT
          !.issued = @ + 1,
          !.pending = @ \cup {[req |-> c.issued + 1, members |-> MemberIds(rows)]}]

\* if (el.autoRecalc.checked) recalcFn()
AutoRecalc(auto, c, rows) == IF auto THEN recalc(c, rows) ELSE c

RECURSIVE SumSeq(_)
SumSeq(seq) == IF Len(seq) = 0 THEN 0 ELSE seq[1] + SumSeq(Tail(seq))

\* What a request for n members can come back with: a 200 answer without
\* totalDps, one with totalDps, one with a member entry more than was asked
\* for, a non-OK status, and a body that is no JSON.
Outcomes == {"sum", "total", "extra", "status", "json"}

ResponseOf(o, n) ==
  IF o = "sum"
    THEN [ok |-> TRUE, json |-> TRUE,
          data |-> [totalDps |-> NoValue, members |-> AsSeq([i \in 1..n |-> 50])]]
  ELSE IF o = "total"
    THEN [ok |-> TRUE, json |-> TRUE,
          data |-> [totalDps |-> Some(300), members |-> AsSeq([i \in 1..n |-> 100])]]
  ELSE IF o = "extra"
    THEN [ok |-> TRUE, json |-> TRUE,
          data |-> [totalDps |-> NoValue, members |-> AsSeq([i \in 1..(n + 1) |-> 40])]]
  ELSE IF o = "status"
    THEN [ok |-> FALSE, json |-> FALSE, data |-> NoValue]
  ELSE [ok |-> TRUE, json |-> FALSE, data |-> NoValue]

\* String(e) of what the catch block receives.
ErrorLog(text) == [error |-> TRUE, text |-> text, total |-> 0]

\* The text recalc writes to el.log after a rendered answer.
ResultLog(total) == [error |-> FALSE, text |-> "result", total |-> total]

\* computeViaPython: the data, or the error it throws.
computeViaPython(o, n) ==
  IF ~ResponseOf(o, n).ok THEN [threw |-> TRUE, log |-> ErrorLog("Error: API error: 500 ")]
  ELSE IF ~ResponseOf(o, n).json THEN [threw |-> TRUE, log |-> ErrorLog("SyntaxError: Unexpected token")]
  ELSE [threw |-> FALSE, data |-> ResponseOf(o, n).data]

\* total of recalc
TotalOf(data) ==
  IF data.totalDps.some THEN data.totalDps.val ELSE SumSeq(data.members)

\* The forEach over data.members: the rows of the request get their dps;
\* an entry beyond the rows of the request throws.  IndexOf(q.members, id)
\* is the index i of the row in members.
RenderThrows(q, data) == Len(data.members) > Len(q.members)

RowsRendered(rows, q, data) ==
  AsSeq([i \in 1..Len(rows) |->
           IF IndexOf(q.members, rows[i].id) \in 0..(Len(data.members) - 1)
           THEN [rows[i] EXCEPT !.dps = Some(data.members[IndexOf(q.members, rows[i].id) + 1])]
           ELSE rows[i]])

\* try { ... } catch { ... } finally { ... } of recalc once the request q
\* settled with res.
Settled(c, q, res) ==
  IF res.threw
  THEN [setBusy(c, FALSE) EXCEPT !.log = Some(res.log), !.pending = @ \ {q}]
  ELSE [setBusy(c, FALSE) EXCEPT
          !.totalValue = Some(TotalOf(res.data)),
          !.log = IF RenderThrows(q, res.data)
                  THEN Some(ErrorLog("TypeError: Cannot read properties of undefined"))
                  ELSE Some(ResultLog(TotalOf(res.data))),
          !.pending = @ \ {q}]

(***************************************************************************)
(* History kept for the properties: the ids ever created, for every row    *)
(* the treasure level it had when it last left a mythic character, the     *)
(* members of the request issued last and the outcome it settled with, and *)
(* the number of operations.                                               *)
(***************************************************************************)

\* The ids of the rows of p2 that p did not have yet.
NewIds(p, p2) ==
  AsSeq([k \in 1..(p2.memberSeq - p.memberSeq) |->
           p2.rows[Len(p2.rows) - (p2.memberSeq - p.memberSeq) + k].id])

HistAdded(h, p, p2) ==
  [h EXCEPT !.created = @ \o NewIds(p, p2),
            !.leftLv = @ \o AsSeq([k \in 1..Len(NewIds(p, p2)) |-> NoValue])]

HistRemoved(h, p, p2, i) ==
  [h EXCEPT !.created = @ \o NewIds(p, p2),
            !.leftLv = Without(@, i) \o AsSeq([k \in 1..Len(NewIds(p, p2)) |-> NoValue])]

HistIssued(h, c, c2, rows) ==
  IF c2.issued > c.issued
  THEN [h EXCEPT !.lastMembers = MemberIds(rows), !.lastOutcome = NoValue]
  ELSE h

HistCharacter(h, i, old, new) ==
  [h EXCEPT !.leftLv[i] =
     IF IsMythic(old.character) /\ ~IsMythic(new.character) THEN Some(old.treasureLv)
     ELSE IF IsMythic(new.character) THEN NoValue
     ELSE @]

HistSettled(h, c, q, o) ==
  IF q.req = c.issued THEN [h EXCEPT !.lastOutcome = Some(o)] ELSE h

(***************************************************************************)
(* Page operations                                                         *)
(***************************************************************************)
\* InitControls running the fallback whatever applyStateFromUrl returned.
InitControls_AlwaysSync(res) == syncRelicLevelsFromAllRelic(res.el)

\* if (!appliedRelic) syncRelicLevelsFromAllRelic(): the controls after it.
InitControls(res) ==
  IF ~res.appliedRelic THEN syncRelicLevelsFromAllRelic(res.el) ELSE res.el

\* The controls init() leaves when the page is loaded at location loc.
PageLoad(loc) == InitControls(applyStateFromUrl(DefaultControls, loc))

\* What init() does with applyStateFromUrl's result: the fallback to the
\* summary level when no relic levels were applied.
InitFrom(res) ==
  /\ el' = InitControls(res)
  /\ applied' = [appliedRelic |-> res.appliedRelic, appliedOther |-> res.appliedOther]

\* init() up to its first await: the controls get their options, then
\* applyStateFromUrl, then the fallback to the summary level.
InitPage ==
  /\ phase = "start"
  /\ InitFrom(applyStateFromUrl(DefaultControls, location))
  /\ phase' = "loading"
  /\ lastOp' = "init"
  /\ UNCHANGED <<location, replaced, replacedPrev, nEdits, codecVars, partyVars>>

\* The handlers run once init() has registered them.
PartyReady == phase = "ready" /\ hist.ops < MaxPartyOps

\* A handler that ends in if (el.autoRecalc.checked) recalcFn() can run
\* while requests are left under the bound.
MayRecalc == autoRecalc => calc.issued < MaxRequests

\* The default party of init().
DefaultParty ==
  addMember(addMember(NoParty, CHARACTERS[1].id, 1),
            IF Len(CHARACTERS) >= 2 THEN CHARACTERS[2].id ELSE CHARACTERS[1].id, 1)

\* init() after its fetches, in one synchronous stretch: the two default
\* rows, the listeners of the buttons and of the controls, and recalc().
AttachListeners ==
  /\ phase = "loading"
  /\ party' = DefaultParty
  /\ calc' = recalc(calc, DefaultParty.rows)
  /\ hist' = HistIssued(HistAdded(hist, party, DefaultParty), calc,
                        recalc(calc, DefaultParty.rows), DefaultParty.rows)
  /\ partyOp' = [op |-> "init"]
  /\ phase' = "ready"
  /\ lastOp' = "listen"
  /\ UNCHANGED <<el, location, applied, replaced, replacedPrev, nEdits, autoRecalc,
                 codecVars>>

\* The controls the user edits: the summary select, the other-buff selects
\* and the first, seventh and last relic select.
EditedControls ==
  {"allRelicLv", "guildBlessing", "unitLevelSumBuff", "petLevelSum"}
    \cup {RELIC_KEYS[i] : i \in {1, 7, Len(RELIC_KEYS)}}

ValueOf(ui, control) ==
  IF control = "allRelicLv" THEN ui.allRelicLv
  ELSE IF control = "guildBlessing" THEN ui.guildBlessing
  ELSE IF control = "unitLevelSumBuff" THEN ui.unitLevelSumBuff
  ELSE IF control = "petLevelSum" THEN ui.petLevelSum
  ELSE ui.relics[IndexOf(RELIC_KEYS, control) + 1]

\* The controls after the user picks the option of value v.
Edited(ui, control, v) ==
  IF control = "allRelicLv" THEN [ui EXCEPT !.allRelicLv = v]
  ELSE IF control = "guildBlessing" THEN [ui EXCEPT !.guildBlessing = v]
  ELSE IF control = "unitLevelSumBuff" THEN [ui EXCEPT !.unitLevelSumBuff = v]
  ELSE IF control = "petLevelSum" THEN [ui EXCEPT !.petLevelSum = v]
  ELSE [ui EXCEPT !.relics[IndexOf(RELIC_KEYS, control) + 1] = v]

\* The option values a user edit picks: every level on the summary select,
\* the two end levels on a relic select, every guild and pet option, and the
\* unit options 0, 0.5 and 25.0.
PickValues(control) ==
  IF control = "allRelicLv" THEN {levelOptions(RelicLvMax)[i] : i \in 1..RelicLvMax}
  ELSE IF control = "guildBlessing" THEN {GuildOptions[i] : i \in DOMAIN GuildOptions}
  ELSE IF control = "unitLevelSumBuff"
    THEN {UnitOptions[i] : i \in {1, 2, Len(UnitOptions)}}
  ELSE IF control = "petLevelSum" THEN {PetOptions[i] : i \in DOMAIN PetOptions}
  ELSE {RelicLvMin, RelicLvMax}

\* A change event needs another option than the selected one.
Picks(ui, control) == PickValues(control) \ {ValueOf(ui, control)}

\* The user changes a control while init() still awaits its fetches: no
\* listener is registered yet, so only the control changes.
EditWhileLoading ==
  /\ phase = "loading"
  /\ nEdits < MaxEdits
  /\ \E control \in EditedControls : \E v \in Picks(el, control) :
       el' = Edited(el, control, v)
  /\ nEdits' = nEdits + 1
  /\ lastOp' = "edit"
  /\ UNCHANGED <<location, phase, applied, replaced, replacedPrev, codecVars, partyVars>>

\* if (el.autoRecalc.checked) recalc(), the last statement of a listener
\* init() registers on a control.
ThenAutoRecalc(op) ==
  /\ calc' = AutoRecalc(autoRecalc, calc, party.rows)
  /\ hist' = [HistIssued(hist, calc, AutoRecalc(autoRecalc, calc, party.rows), party.rows)
                EXCEPT !.ops = @ + 1]
  /\ partyOp' = op
  /\ UNCHANGED <<party, autoRecalc>>

\* The change listener of a control of the relic and other-buff groups:
\* the summary control first copies its level to the 12 relic selects;
\* every control of the two groups then calls persistStateToUrl; the
\* listener ends with recalc() when autoRecalc is checked.
Changed(control) ==
  /\ \E v \in Picks(el, control) :
       LET picked == Edited(el, control, v)
           ui     == IF control = "allRelicLv" THEN syncRelicLevelsFromAllRelic(picked)
                     ELSE picked
           res    == persistStateToUrl(ui, location)
       IN /\ el' = ui
          /\ location' = res.location
          /\ replaced' = res.replaced
  /\ replacedPrev' = FALSE
  /\ nEdits' = nEdits + 1
  /\ lastOp' = "change"
  /\ ThenAutoRecalc([op |-> "change"])
  /\ UNCHANGED <<phase, applied, codecVars>>

\* change on one of the edited controls: its listener runs.
OnChange ==
  /\ PartyReady
  /\ MayRecalc
  /\ nEdits < MaxEdits
  /\ \E control \in EditedControls : Changed(control)

\* The input and change listener of a RECALC_TARGET outside the two groups
\* (enemy, durationSec, the buff inputs, coins, trials, seed, multiplier,
\* pet1..pet3): nothing is persisted, and recalc() runs when autoRecalc is
\* checked.  None of these controls is read by the functions of the URL.
OnInput ==
  /\ PartyReady
  /\ MayRecalc
  /\ nEdits < MaxEdits
  /\ nEdits' = nEdits + 1
  /\ lastOp' = "input"
  /\ ThenAutoRecalc([op |-> "input"])
  /\ UNCHANGED <<el, location, phase, applied, replaced, replacedPrev, codecVars>>

\* The controls and the returned flags after applyStateFromUrl.
ApplyFrom(res) ==
  /\ el' = res.el
  /\ applied' = [appliedRelic |-> res.appliedRelic, appliedOther |-> res.appliedOther]

\* A call of the exported applyStateFromUrl.
CallApply ==
  /\ phase \in {"loading", "ready"}
  /\ ApplyFrom(applyStateFromUrl(el, location))
  /\ lastOp' = "apply"
  /\ UNCHANGED <<location, phase, replaced, replacedPrev, nEdits, codecVars, partyVars>>

\* A call of the exported persistStateToUrl; lastOp "persist2" marks a call
\* that directly follows another persistStateToUrl call.
CallPersist ==
  /\ phase \in {"loading", "ready"}
  /\ LET res == persistStateToUrl(el, location)
     IN /\ location' = res.location
        /\ replaced' = res.replaced
  /\ replacedPrev' = IF lastOp \in {"change", "persist", "persist2"} THEN replaced ELSE FALSE
  /\ lastOp' = IF lastOp \in {"change", "persist", "persist2"} THEN "persist2" ELSE "persist"
  /\ UNCHANGED <<el, phase, applied, nEdits, codecVars, partyVars>>

Next ==
  \/ InitPage
  \/ AttachListeners
  \/ EditWhileLoading
  \/ OnChange
  \/ OnInput
  \/ CallApply
  \/ CallPersist

Spec == Init /\ [][Next]_vars

(***************************************************************************)
(* The codec functions on their own: an input is drawn, then the encoder   *)
(* and the decoder are applied to it.                                      *)
(***************************************************************************)
\* The tuple of common level b with the slots of f set to f's levels.
TupleWith(b, f) == AsSeq([i \in 1..12 |-> IF i \in DOMAIN f THEN f[i] ELSE b])

\* The tuple that runs through all levels, starting after level k.
Ramp(k) == AsSeq([i \in 1..12 |-> ((i + k) % 11) + 1])

\* Characters that are no base64url character.
ForeignChars == {"!", "=", " ", "\t", "\n", "U+00A0", "+", "/", "."}

TokenChars ==
  {B64Alphabet[i] : i \in DOMAIN B64Alphabet} \cup {"-", "_"} \cup ForeignChars

\* The string t with character i replaced by c; t itself for i = 0.
Replaced(t, i, c) == AsSeq([j \in 1..Len(t) |-> IF j = i THEN c ELSE t[j]])

\* The 6-byte relic token of the levels 1, 2, ..., 11, 1.
Ramp48 == bytesToB64Url(BytesOf48(AsSeq([i \in 1..12 |-> (i - 1) % 11])))

\* White space put into a relic token.
WhiteChars == {"\t", "\n", "\f", "\r", " ", ""}

\* The string t with a run of k characters c behind its first i characters.
WithRun(t, i, k, c) ==
  SubSeq(t, 1, i) \o AsSeq([j \in 1..k |-> c]) \o SubSeq(t, i + 1, Len(t))

CodecStart(input) ==
  /\ el = DefaultControls
  /\ location = [pathname |-> "/", params |-> << >>, serialized |-> TRUE, hash |-> ""]
  /\ phase = "start"
  /\ applied = [appliedRelic |-> FALSE, appliedOther |-> FALSE]
  /\ lastOp = "none"
  /\ replaced = FALSE
  /\ replacedPrev = FALSE
  /\ nEdits = 0
  /\ codecOp = "input"
  /\ codecIn = input
  /\ codecTok = NoValue
  /\ codecOut = NoValue
  /\ PartyIdle
  /\ autoRecalc = FALSE

\* String(k) for an integer k.
IntString(k) == IF k < 0 THEN <<"-">> \o ToString10(0 - k) ELSE ToString10(k)

\* The decimal string of q / 4, for an integer q.
QuarterString(q) ==
  LET a == IF q < 0 THEN 0 - q ELSE q
  IN (IF q < 0 THEN <<"-">> ELSE << >>)
       \o ToString10(a \div 4)
       \o (CASE a % 4 = 0 -> << >>
             [] a % 4 = 1 -> <<".", "2", "5">>
             [] a % 4 = 2 -> <<".", "5">>
             [] a % 4 = 3 -> <<".", "7", "5">>)

\* The common 4-bit field of the 6-byte relic tokens handed to the decoder.
FieldBases == {0, 10, 15}

\* Values of a slot handed to packRelicLevels besides levels: integers out
\* of range, fractions, NaN, the infinities and a missing value.
OddLevelValues ==
  { NumberValue(-3, 1), NumberValue(0, 1), NumberValue(12, 1), NumberValue(27, 1),
    NumberValue(1, 2), NumberValue(-1, 2), NumberValue(3, 2), NumberValue(19, 10),
    NumberValue(21, 2), NumberValue(23, 2), NumberValue(-7, 4),
    [t |-> "number", x |-> NaN], [t |-> "infinity"], [t |-> "-infinity"],
    [t |-> "undefined"] }

\* The common level of those tuples.
ValueBases == {1, 6, 11}

\* Inputs of packOtherBuffs beyond the declared domain: guildBlessing the
\* integer g, unitLevelSumBuff the number q / 4, petLevelSum any string.
GuildInputs == -2..7
QuarterInputs == {-4, -1, 0, 1, 2, 3, 4, 5, 6, 7, 14, 98, 99, 100, 101, 102, 103, 104, 200}
PetInputs == {PET_LEVEL_SUM_VALUES[i] : i \in DOMAIN PET_LEVEL_SUM_VALUES} \cup {"foo", ""}

\* Records with a field Number() does not read as a number.
OddRecords ==
  { [guildBlessing |-> <<"x">>, unitLevelSumBuff |-> <<"3", ".", "5">>, petLevelSum |-> "fuga"],
    [guildBlessing |-> <<"2">>, unitLevelSumBuff |-> <<"a", "b", "c">>, petLevelSum |-> "piyo"],
    [guildBlessing |-> << >>, unitLevelSumBuff |-> << >>, petLevelSum |-> ""],
    [guildBlessing |-> <<"1", ".", "9">>, unitLevelSumBuff |-> <<".", "5">>, petLevelSum |-> "hoge"],
    [guildBlessing |-> <<"-", "0", ".", "5">>, unitLevelSumBuff |-> <<"2", "5", ".">>, petLevelSum |-> "HOGE"],
    [guildBlessing |-> <<"1", "e", "1">>, unitLevelSumBuff |-> <<"0">>, petLevelSum |-> "hoge"],
    [guildBlessing |-> <<"1">>, unitLevelSumBuff |-> <<"1", "e", "1">>, petLevelSum |-> "hoge"],
    [guildBlessing |-> <<" ", "2">>, unitLevelSumBuff |-> <<" ", "5">>, petLevelSum |-> "hoge"],
    [guildBlessing |-> <<"0", "x", "2">>, unitLevelSumBuff |-> <<"0", "x", "1", "0">>, petLevelSum |-> "fuga"],
    [guildBlessing |-> <<"I", "n", "f", "i", "n", "i", "t", "y">>,
     unitLevelSumBuff |-> <<"I", "n", "f", "i", "n", "i", "t", "y">>, petLevelSum |-> "hoge"],
    [guildBlessing |-> <<" ">>, unitLevelSumBuff |-> <<"-", "I", "n", "f", "i", "n", "i", "t", "y">>,
     petLevelSum |-> "piyo"],
    [guildBlessing |-> <<"4", "2", "9", "4", "9", "6", "7", "2", "9", "7">>,
     unitLevelSumBuff |-> <<"2", "5", "e", "-", "1">>, petLevelSum |-> "hoge"],
    [guildBlessing |-> <<"\t", "3", "\n">>, unitLevelSumBuff |-> <<"", "1", "2", ".", "2", "5", "U+FEFF">>,
     petLevelSum |-> "fuga"],
    [guildBlessing |-> <<"0", "b", "1", "1">>, unitLevelSumBuff |-> <<"0", "o", "1", "7">>, petLevelSum |-> "hoge"],
    [guildBlessing |-> <<"2", "e", "-", "1">>, unitLevelSumBuff |-> <<"1", "e", "4", "0", "0">>, petLevelSum |-> "hoge"],
    [guildBlessing |-> <<"i", "n", "f", "i", "n", "i", "t", "y">>, unitLevelSumBuff |-> <<"1", "e">>,
     petLevelSum |-> "hoge"],
    [guildBlessing |-> <<"2", ".", "9", "9", "9", "9", "9", "9", "9", "9", "9", "9", "9", "9", "9", "9", "9", "9">>,
     unitLevelSumBuff |-> <<"0", ".", "2", "4", "9", "9", "9", "9", "9", "9", "9", "9", "9", "9", "9", "9", "9",
                            "9", "9", "9", "9", "9", "9", "9">>,
     petLevelSum |-> "hoge"],
    [guildBlessing |-> <<"U+00E9", "2">>, unitLevelSumBuff |-> <<"U+3000", "5", "U+2028">>, petLevelSum |-> "hoge"],
    [guildBlessing |-> <<"3", "U+200B">>, unitLevelSumBuff |-> <<"2", "4", ".", "7", "5", "e", "0", "0", "0">>,
     petLevelSum |-> "piyo"] }

\* Characters an o token is drawn from besides the base-36 digits.
OtherTokenExtras ==
  {"-", "+", " ", "\t", "\n", "", "U+00A0", "U+FEFF", "U+3000", "U+2003", "U+00E9", "U+200B",
   "!", ".", "Z"}

\* Tokens of 10 to 12 base-36 digits: up to 2^53 and beyond.
LongOtherTokens ==
  { <<"z", "z", "z", "z", "z", "z", "z", "z", "z", "z">>,
    <<"e", "o", "g", "w", "8", "0", "o", "g", "o", "9", "o">>,
    <<"5", "c", "o", "o", "g", "4", "w", "g", "k", "4", "c", "0">>,
    <<"-", "2", "g", "o", "s", "a", "7", "p", "a", "2", "g", "x">> }

\* The inputs.  Level tuples: a common level with at most MaxDiff slots set
\* otherwise, and the 11 tuples that run through all levels.  Other-buff
\* records: the declared domain.  Relic tokens: null, every one-character
\* string, and the strings over "A" and "_" of up to MaxTokLen characters
\* with at most one character replaced by a foreign one, the 6-byte token
\* of the levels 1..11, 1 with a run of 1 to 4 white-space characters put
\* into it, and the 6-byte tokens of a common 4-bit field with at most
\* MaxDiff fields set otherwise.  Value tuples: a common level with at most MaxDiff slots
\* holding a value that is no level.  Records beyond
\* the declared domain.  Other-buff
\* tokens: every string of one or two base-36 digits, those with one
\* more character, or white space, in front or behind, and four tokens of
\* 10 to 12 digits.
InitCodec ==
  \/ \E b \in 1..11 : \E S \in SUBSET (1..12) :
       /\ Cardinality(S) <= MaxDiff
       /\ \E f \in [S -> 1..11] : CodecStart([kind |-> "levels", val |-> TupleWith(b, f)])
  \/ \E k \in 0..10 : CodecStart([kind |-> "levels", val |-> Ramp(k)])
  \/ \E o \in OtherRecords : CodecStart([kind |-> "other", val |-> o])
  \/ CodecStart([kind |-> "rtoken", val |-> NoValue])
  \/ \E c \in TokenChars : CodecStart([kind |-> "rtoken", val |-> Some(<<c>>)])
  \/ \E n \in 0..MaxTokLen : \E t \in [1..n -> {"A", "_"}] :
       \/ CodecStart([kind |-> "rtoken", val |-> Some(AsSeq(t))])
       \/ \E i \in 1..n : \E c \in ForeignChars :
            CodecStart([kind |-> "rtoken", val |-> Some(Replaced(t, i, c))])
  \/ \E i \in 0..8 : \E k \in 1..4 : \E c \in WhiteChars :
       CodecStart([kind |-> "rtoken", val |-> Some(WithRun(Ramp48, i, k, c))])
  \/ \E b \in FieldBases : \E S \in SUBSET (1..12) :
       /\ Cardinality(S) <= MaxDiff
       /\ \E f \in [S -> 0..15] :
            CodecStart([kind |-> "fieldtoken", fields |-> TupleWith(b, f),
                        val |-> Some(bytesToB64Url(BytesOf48(TupleWith(b, f))))])
  \/ \E b \in ValueBases : \E S \in SUBSET (1..12) :
       /\ Cardinality(S) <= MaxDiff
       /\ \E f \in [S -> OddLevelValues] :
            CodecStart([kind |-> "values", val |-> TupleWith(NumberValue(b, 1), f)])
  \/ \E g \in GuildInputs : \E q \in QuarterInputs : \E p \in PetInputs :
       CodecStart([kind |-> "record", g |-> g, q |-> q,
                   val |-> [guildBlessing    |-> IntString(g),
                            unitLevelSumBuff |-> QuarterString(q),
                            petLevelSum      |-> p]])
  \/ \E o \in OddRecords : CodecStart([kind |-> "oddrecord", val |-> o])
  \/ \E c \in {Base36Digits[i] : i \in DOMAIN Base36Digits} \cup OtherTokenExtras :
       CodecStart([kind |-> "otoken", val |-> <<c>>])
  \/ \E i \in DOMAIN Base36Digits : \E j \in DOMAIN Base36Digits :
       CodecStart([kind |-> "otoken", val |-> <<Base36Digits[i], Base36Digits[j]>>])
  \/ \E i \in DOMAIN Base36Digits : \E c \in OtherTokenExtras :
       \/ CodecStart([kind |-> "otoken", val |-> <<c, Base36Digits[i]>>])
       \/ CodecStart([kind |-> "otoken", val |-> <<Base36Digits[i], c>>])
       \/ CodecStart([kind |-> "otoken", val |-> <<"f", Base36Digits[i], c>>])
       \/ CodecStart([kind |-> "otoken", val |-> <<c, "f", Base36Digits[i]>>])
       \/ CodecStart([kind |-> "otoken", val |-> <<c, c, "r", Base36Digits[i]>>])
  \/ \E t \in LongOtherTokens : CodecStart([kind |-> "otoken", val |-> t])

\* packRelicLevels(levels)
PackRelic ==
  /\ codecOp = "input"
  /\ codecIn.kind = "levels"
  /\ codecTok' = Some(packRelicLevels(codecIn.val))
  /\ codecOp' = "packRelicLevels"
  /\ UNCHANGED <<codecIn, codecOut, pageVars, partyVars>>

\* packRelicLevels(levels) of values that need not be levels
PackValues ==
  /\ codecOp = "input"
  /\ codecIn.kind = "values"
  /\ codecTok' = Some(packRelicLevels(LevelsOfValues(codecIn.val)))
  /\ codecOp' = "packRelicLevels"
  /\ UNCHANGED <<codecIn, codecOut, pageVars, partyVars>>

\* parseRelicParam of the token packRelicLevels produced
ParsePacked ==
  /\ codecOp = "packRelicLevels"
  /\ codecOut' = parseRelicParam(codecTok)
  /\ codecOp' = "parseRelicParam"
  /\ UNCHANGED <<codecIn, codecTok, pageVars, partyVars>>

\* parseRelicParam(r) of a token from outside
ParseToken ==
  /\ codecOp = "input"
  /\ codecIn.kind \in {"rtoken", "fieldtoken"}
  /\ codecOut' = parseRelicParam(codecIn.val)
  /\ codecOp' = "parseRelicParam"
  /\ UNCHANGED <<codecIn, codecTok, pageVars, partyVars>>

\* packOtherBuffs(other)
PackOther ==
  /\ codecOp = "input"
  /\ codecIn.kind \in {"other", "record", "oddrecord"}
  /\ codecTok' = Some(packOtherBuffs(codecIn.val))
  /\ codecOp' = "packOtherBuffs"
  /\ UNCHANGED <<codecIn, codecOut, pageVars, partyVars>>

\* unpackOtherBuffs of the token packOtherBuffs produced
UnpackPacked ==
  /\ codecOp = "packOtherBuffs"
  /\ codecOut' = unpackOtherBuffs(codecTok.val)
  /\ codecOp' = "unpackOtherBuffs"
  /\ UNCHANGED <<codecIn, codecTok, pageVars, partyVars>>

\* unpackOtherBuffs(oStr) of a token from outside
UnpackToken ==
  /\ codecOp = "input"
  /\ codecIn.kind = "otoken"
  /\ codecOut' = unpackOtherBuffs(codecIn.val)
  /\ codecOp' = "unpackOtherBuffs"
  /\ UNCHANGED <<codecIn, codecTok, pageVars, partyVars>>

NextCodec ==
  \/ PackRelic
  \/ PackValues
  \/ ParsePacked
  \/ ParseToken
  \/ PackOther
  \/ UnpackPacked
  \/ UnpackToken

SpecCodec == InitCodec /\ [][NextCodec]_vars

(***************************************************************************)
(* Party operations                                                        *)
(***************************************************************************)
\* The page opened without a query.
InitParty ==
  /\ Init
  /\ location = [pathname |-> "/", params |-> << >>, serialized |-> TRUE, hash |-> ""]

\* The user checks or unchecks el.autoRecalc.
ToggleAutoRecalc ==
  /\ PartyReady
  /\ autoRecalc' = ~autoRecalc
  /\ partyOp' = [op |-> "toggle"]
  /\ hist' = [hist EXCEPT !.ops = @ + 1]
  /\ UNCHANGED <<party, calc, pageVars, codecVars>>

PartyStep(p2, c2, h2, op) ==
  /\ party' = p2
  /\ calc' = c2
  /\ hist' = [HistIssued(h2, calc, c2, p2.rows) EXCEPT !.ops = @ + 1]
  /\ partyOp' = op
  /\ UNCHANGED <<autoRecalc, pageVars, codecVars>>

\* click on el.btnAddMember
AddClicked(p2) ==
  PartyStep(p2, AutoRecalc(autoRecalc, calc, p2.rows), HistAdded(hist, party, p2),
            [op |-> "add"])

ClickAdd ==
  /\ PartyReady
  /\ MayRecalc
  /\ party.memberSeq < MaxMemberSeq
  /\ AddClicked(addMember(party, CHARACTERS[1].id, 1))

\* click on the .member-remove button of row i
RemoveClicked(i, p2) ==
  PartyStep(p2, AutoRecalc(autoRecalc, calc, p2.rows), HistRemoved(hist, party, p2, i),
            [op |-> "remove", row |-> i])

ClickRemove ==
  /\ PartyReady
  /\ MayRecalc
  /\ \E i \in 1..Len(party.rows) :
       /\ Len(party.rows) = 1 => party.memberSeq < MaxMemberSeq
       /\ RemoveClicked(i, RemoveRow(party, i))

\* change of the .member-character select of row i
CharacterChanged(i, new) ==
  PartyStep([party EXCEPT !.rows[i] = new],
            AutoRecalc(autoRecalc, calc, [party.rows EXCEPT ![i] = new]),
            HistCharacter(hist, i, party.rows[i], new),
            [op |-> "character", row |-> i])

ChangeCharacter ==
  /\ PartyReady
  /\ MayRecalc
  /\ \E i \in 1..Len(party.rows) : \E k \in 1..Len(CHARACTERS) :
       /\ CHARACTERS[k].id # party.rows[i].character
       /\ CharacterChanged(i, updateTreasureVisibility(
                                [party.rows[i] EXCEPT !.character = CHARACTERS[k].id]))

\* change of the .member-treasurelv select of row i
ChangeTreasure ==
  /\ PartyReady
  /\ MayRecalc
  /\ \E i \in 1..Len(party.rows) : \E v \in TreasurePicks \ {party.rows[i].treasureLv} :
       /\ ~party.rows[i].disabled
       /\ PartyStep([party EXCEPT !.rows[i].treasureLv = v],
                    AutoRecalc(autoRecalc, calc, party.rows),
                    hist, [op |-> "treasure", row |-> i])

\* input or change on the .member-charlv, .member-rune-name or
\* .member-rune-rarity control of row i, or on one of its extra controls:
\* the row keeps its id, character and treasure level, and recalcFn() runs
\* when autoRecalc is checked.
ChangeRowInput ==
  /\ PartyReady
  /\ MayRecalc
  /\ \E i \in 1..Len(party.rows) :
       PartyStep(party, AutoRecalc(autoRecalc, calc, party.rows), hist,
                 [op |-> "rowinput", row |-> i])

\* click on el.btnCalc
ClickCalc ==
  /\ PartyReady
  /\ ~calc.busy
  /\ calc.issued < MaxRequests
  /\ PartyStep(party, recalc(calc, party.rows), hist, [op |-> "calc"])

\* The request q settles with outcome o, and recalc runs to its end.
RequestSettled(q, o, res) ==
  /\ party' = [party EXCEPT !.rows = IF res.threw THEN @ ELSE RowsRendered(@, q, res.data)]
  /\ calc' = Settled(calc, q, res)
  /\ hist' = [HistSettled(hist, calc, q, o) EXCEPT !.ops = @ + 1]
  /\ partyOp' = [op |-> "settle", req |-> q.req, outcome |-> o]
  /\ UNCHANGED <<autoRecalc, pageVars, codecVars>>

Settle ==
  /\ hist.ops < MaxPartyOps
  /\ \E q \in calc.pending : \E o \in Outcomes :
       RequestSettled(q, o, computeViaPython(o, Len(q.members)))

NextParty ==
  \/ InitPage
  \/ AttachListeners
  \/ ToggleAutoRecalc
  \/ ClickAdd
  \/ ClickRemove
  \/ ChangeCharacter
  \/ ChangeTreasure
  \/ ChangeRowInput
  \/ OnChange
  \/ OnInput
  \/ ClickCalc
  \/ Settle

SpecParty == InitParty /\ [][NextParty]_vars

(***************************************************************************)
(* Properties of the codec functions (SpecCodec)                           *)
(***************************************************************************)
\* C1: for every tuple of 12 levels in 1..11, parseRelicParam of the token
\* packRelicLevels produces is that tuple, slot for slot.
C1_RelicRoundTrip ==
  (codecOp = "parseRelicParam" /\ codecIn.kind = "levels")
    => codecOut = Some(codecIn.val)

C1_Witness ==
  /\ codecOp = "parseRelicParam"
  /\ codecIn.kind = "levels"
  /\ codecIn.val[1] # codecIn.val[2]
  /\ codecIn.val[2] # codecIn.val[12]
  /\ Len(codecTok.val) = 8
  /\ codecOut = Some(codecIn.val)

\* C3: for every OtherBuffs record of the declared domain,
\* unpackOtherBuffs(packOtherBuffs(record)) is the record, field for field.
C3_OtherRoundTrip ==
  (codecOp = "unpackOtherBuffs" /\ codecIn.kind = "other")
    => codecOut = Some(codecIn.val)

C3_Witness ==
  /\ codecOp = "unpackOtherBuffs"
  /\ codecIn.kind = "other"
  /\ codecIn.val = [guildBlessing |-> <<"2">>, unitLevelSumBuff |-> <<"3", ".", "5">>,
                    petLevelSum |-> PET_LEVEL_SUM_VALUES[3]]
  /\ codecOut = Some(codecIn.val)

\* A character outside ^[A-Za-z0-9_-]+$ occurs in t.
HasForeignChar(t) ==
  \E i \in 1..Len(t) : DigitVal36(t[i]) < 0 /\ t[i] \notin {"-", "_"}

\* A character occurs in t that is neither of ^[A-Za-z0-9_-]+$ nor "+",
\* "/", TAB, LF, FF, CR or SPACE.
HasRejectedChar(t) ==
  \E i \in 1..Len(t) :
    /\ DigitVal36(t[i]) < 0
    /\ t[i] \notin {"-", "_", "+", "/", "\t", "\n", "\f", "\r", " "}

\* The number of characters of t other than TAB, LF, FF, CR and SPACE.
InkCount(t) == Cardinality({i \in 1..Len(t) : t[i] \notin {"\t", "\n", "\f", "\r", " "}})

\* The number of bytes 4 characters per 3 bytes leave for a token of k
\* base64url characters; -1 when no byte string has that length.
ByteCount(k) ==
  IF k % 4 = 1 THEN -1 ELSE (k \div 4) * 3 + (IF k % 4 = 0 THEN 0 ELSE (k % 4) - 1)

\* C11: every o token unpackOtherBuffs accepts yields a record of the
\* declared domain (guildBlessing 0..3, unitLevelSumBuff a half-integer in
\* 0.0..25.0, petLevelSum a token of the fixed list); every other token
\* yields null.
C11_Stated ==
  (codecOp = "unpackOtherBuffs" /\ codecIn.kind = "otoken" /\ codecOut.some)
    => codecOut.val \in OtherRecords

\* The integer n packOtherBuffs rendered, read back from the token.
PackedOf(tok) == ToInt(ParseInt36(tok))

\* C12 as stated: an integer guildBlessing outside 0..3 is encoded as its
\* value mod 4 (4 as 0, 5 as 1).
C12_Stated ==
  (codecOp = "packOtherBuffs" /\ codecIn.kind = "record")
    => (PackedOf(codecTok.val) \div 256) % 4 = codecIn.g % 4

\* C12: packOtherBuffs clamps an integer guildBlessing to 0..3 before the
\* mask: a value below 0 is encoded as 0, a value above 3 as 3, a value of
\* 0..3 as itself.  An integer beyond 32 bits is wrapped into them before
\* the clamp: 4294967297 is encoded as 1.
C12_GuildClamped ==
  /\ (codecOp = "packOtherBuffs" /\ codecIn.kind = "record")
       => (PackedOf(codecTok.val) \div 256) % 4
            = (IF codecIn.g < 0 THEN 0 ELSE IF codecIn.g > 3 THEN 3 ELSE codecIn.g)
  /\ (/\ codecOp = "packOtherBuffs"
      /\ codecIn.kind = "oddrecord"
      /\ codecIn.val.guildBlessing = <<"4", "2", "9", "4", "9", "6", "7", "2", "9", "7">>)
       => (PackedOf(codecTok.val) \div 256) % 4 = 1

C12_Witness ==
  /\ codecOp = "packOtherBuffs"
  /\ codecIn.kind = "record"
  /\ codecIn.g = 5
  /\ codecIn.val.guildBlessing = <<"5">>
  /\ PackedOf(codecTok.val) \div 256 = 3

\* C13 as stated: the token list has 4 entries, so the pet index of every
\* accepted o token selects an entry and the fallback is never taken.
C13_Stated ==
  (codecOp = "unpackOtherBuffs" /\ codecIn.kind = "otoken" /\ codecOut.some)
    => /\ Len(PET_LEVEL_SUM_VALUES) = 4
       /\ (PackedOf(codecIn.val) % 4) + 1 \in DOMAIN PET_LEVEL_SUM_VALUES

\* C13: the token list has 3 distinct entries; an accepted o token of pet
\* index 0..2 decodes to the entry of that index, and one of pet index 3
\* takes the fallback and decodes to the first token.
C13_PetLookup ==
  (codecOp = "unpackOtherBuffs" /\ codecIn.kind = "otoken" /\ codecOut.some)
    => /\ Len(PET_LEVEL_SUM_VALUES) = 3
       /\ \A i, j \in DOMAIN PET_LEVEL_SUM_VALUES :
            i # j => PET_LEVEL_SUM_VALUES[i] # PET_LEVEL_SUM_VALUES[j]
       /\ codecOut.val.petLevelSum =
            (IF PackedOf(codecIn.val) % 4 = 3 THEN PET_LEVEL_SUM_VALUES[1]
             ELSE PET_LEVEL_SUM_VALUES[(PackedOf(codecIn.val) % 4) + 1])

C13_Witness ==
  /\ codecOp = "unpackOtherBuffs"
  /\ codecIn = [kind |-> "otoken", val |-> <<"f", "3">>]
  /\ codecOut.some
  /\ codecOut.val.petLevelSum = PET_LEVEL_SUM_VALUES[1]

\* C17: every level set parseRelicParam returns has 12 elements, each an
\* integer in 1..11; for a one-character token they are all equal, and for
\* a 6-byte token element i is the i-th 4-bit field, most significant
\* first, plus 1 and clamped to 11.
C17_DecodedLevelsClamped ==
  (codecOp = "parseRelicParam" /\ codecIn.kind \in {"rtoken", "fieldtoken"})
    => /\ codecOut.some
         => /\ Len(codecOut.val) = 12
            /\ \A i \in 1..12 : codecOut.val[i] \in 1..11
       /\ (codecOut.some /\ Len(codecIn.val.val) = 1)
         => \A i \in 1..12 : codecOut.val[i] = codecOut.val[1]
       /\ (codecIn.kind = "fieldtoken")
         => /\ codecOut.some
            /\ \A i \in 1..12 :
                 codecOut.val[i] =
                   (IF codecIn.fields[i] + 1 > 11 THEN 11 ELSE codecIn.fields[i] + 1)

C17_Witness ==
  /\ codecOp = "parseRelicParam"
  /\ codecIn.kind = "fieldtoken"
  /\ codecIn.fields[1] = 10
  /\ codecIn.fields[2] = 13
  /\ codecIn.fields[3] = 10
  /\ codecOut.some
  /\ codecOut.val[2] = 11

\* The 0-based position of a pet token in the fixed list, 0 when it has none.
PetIndexOrZero(p) ==
  IF \E i \in DOMAIN PET_LEVEL_SUM_VALUES : PET_LEVEL_SUM_VALUES[i] = p
  THEN (CHOOSE i \in DOMAIN PET_LEVEL_SUM_VALUES : PET_LEVEL_SUM_VALUES[i] = p) - 1
  ELSE 0

\* The token is the lower-case base-36 numeral of n, without padding.
IsBase36Of(tok, n) ==
  /\ tok # << >>
  /\ \A i \in 1..Len(tok) : \E j \in DOMAIN Base36Digits : tok[i] = Base36Digits[j]
  /\ (Len(tok) > 1) => tok[1] # "0"
  /\ IsFinite(ParseInt36(tok)) /\ ToInt(ParseInt36(tok)) = n

\* C18: packOtherBuffs renders in base 36 an integer n of 0..1023 whose
\* bits 9..8 are guildBlessing (for a guildBlessing of 0..3), whose bits
\* 7..2 are round(unitLevelSumBuff * 2) clamped to 0..50, and whose bits
\* 1..0 are the index of petLevelSum in the fixed list, 0 when it is not in
\* the list.  The fields are read as Number() reads them: "1e1" as 10,
\* " 5" as 5, "0x10" as 16, "Infinity" as a value above 25, U+3000 and
\* U+2028 around "5" as 5, "24.75e000" as 24.75, "2.9999999999999999" as
\* the double 3 and "0.2499999999999999999999" as the double 0.25, which
\* rounds to the field 1; a guildBlessing with U+00E9 or U+200B next to the
\* digit is NaN and gives the field 0.
C18_OtherBitLayout ==
  (codecOp = "packOtherBuffs" /\ codecIn.kind \in {"other", "record", "oddrecord"})
    => /\ PackedOf(codecTok.val) \in 0..1023
       /\ IsBase36Of(codecTok.val, PackedOf(codecTok.val))
       /\ (PackedOf(codecTok.val) \div 4) % 64 \in 0..50
       /\ PackedOf(codecTok.val) % 4 = PetIndexOrZero(codecIn.val.petLevelSum)
       /\ (codecIn.kind = "record")
            => /\ (codecIn.g \in 0..3) => PackedOf(codecTok.val) \div 256 = codecIn.g
               /\ (PackedOf(codecTok.val) \div 4) % 64 =
                    Max2(0, Min2(50, (codecIn.q + 1) \div 2))
       /\ (codecIn.kind = "oddrecord")
            => /\ (codecIn.val.unitLevelSumBuff = <<"1", "e", "1">>)
                    => (PackedOf(codecTok.val) \div 4) % 64 = 20
               /\ (codecIn.val.unitLevelSumBuff = <<" ", "5">>)
                    => (PackedOf(codecTok.val) \div 4) % 64 = 10
               /\ (codecIn.val.unitLevelSumBuff = <<"0", "x", "1", "0">>)
                    => (PackedOf(codecTok.val) \div 4) % 64 = 32
               /\ (codecIn.val.unitLevelSumBuff = <<"I", "n", "f", "i", "n", "i", "t", "y">>)
                    => (PackedOf(codecTok.val) \div 4) % 64 = 50
               /\ (codecIn.val.unitLevelSumBuff = <<"U+3000", "5", "U+2028">>)
                    => PackedOf(codecTok.val) = 10 * 4
               /\ (codecIn.val.unitLevelSumBuff = <<"2", "4", ".", "7", "5", "e", "0", "0", "0">>)
                    => PackedOf(codecTok.val) = 50 * 4 + 2
               /\ (Len(codecIn.val.unitLevelSumBuff) = 24)
                    => PackedOf(codecTok.val) = 3 * 256 + 1 * 4

C18_Witness ==
  /\ codecOp = "packOtherBuffs"
  /\ codecIn.kind = "record"
  /\ codecIn.g = 2
  /\ codecIn.q = 103
  /\ codecIn.val.petLevelSum = "foo"
  /\ PackedOf(codecTok.val) = 2 * 256 + 50 * 4

\* The level the slot value v stands for: 1 for a missing or non-finite
\* value and for one below 1, 11 for one above 11, otherwise the value
\* without its fraction.
NormalLevel(v) ==
  IF v.t # "number" THEN 1
  ELSE IF v.x.nan THEN 1
  ELSE IF v.x.num < v.x.den THEN 1
  ELSE IF v.x.num > 11 * v.x.den THEN 11
  ELSE v.x.num \div v.x.den

\* C19: packRelicLevels of any 12 values is packRelicLevels of the tuple of
\* their levels (below 1, missing or non-finite: 1; above 11: 11; a
\* fraction: truncated), and it is a token of 8 base64url characters
\* without padding that stands for 6 bytes whose 4-bit fields are in 0..10.
C19_PackClamps ==
  (codecOp = "packRelicLevels" /\ codecIn.kind = "values")
    => /\ codecTok.val = packRelicLevels(AsSeq([i \in 1..12 |-> NormalLevel(codecIn.val[i])]))
       /\ Len(codecTok.val) = 8
       /\ \A i \in 1..8 :
            \/ DigitVal36(codecTok.val[i]) >= 0
            \/ codecTok.val[i] \in {"-", "_"}
       /\ b64UrlToBytes(codecTok.val).ok
       /\ Len(b64UrlToBytes(codecTok.val).bytes) = 6
       /\ \A i \in 1..6 :
            /\ b64UrlToBytes(codecTok.val).bytes[i] \div 16 \in 0..10
            /\ b64UrlToBytes(codecTok.val).bytes[i] % 16 \in 0..10

C19_Witness ==
  /\ codecOp = "packRelicLevels"
  /\ codecIn.kind = "values"
  /\ codecIn.val[1] = NumberValue(6, 1)
  /\ codecIn.val[2] = NumberValue(23, 2)
  /\ codecIn.val[12] = NumberValue(6, 1)
  /\ parseRelicParam(codecTok) = Some(<<6, 11, 6, 6, 6, 6, 6, 6, 6, 6, 6, 6>>)

(***************************************************************************)
(* Properties of the page (Spec)                                           *)
(***************************************************************************)
\* persistStateToUrl was the last thing to run.
Persisted == lastOp \in {"change", "persist", "persist2"}

\* The base-36 digit of each level 1..11.
LevelDigit == <<"1", "2", "3", "4", "5", "6", "7", "8", "9", "a", "b">>

RelicParam == SearchGet(location.params, "r")
OtherParam == SearchGet(location.params, "o")

\* The three other-buff controls, as a record.
OtherControls ==
  [guildBlessing    |-> el.guildBlessing,
   unitLevelSumBuff |-> el.unitLevelSumBuff,
   petLevelSum      |-> el.petLevelSum]

\* C2 as stated: for every common level v in 1..11, persisting 12 equal
\* levels emits r = the base-36 digit of v, and that digit decodes to them.
C2_Stated ==
  (Persisted /\ AllSame(el.relics))
    => /\ RelicParam = Some(<<LevelDigit[el.relics[1]]>>)
       /\ parseRelicParam(RelicParam) = Some(el.relics)

\* C2: for every common level v in 2..11, persisting 12 equal levels emits
\* r = the base-36 digit of v; for v = 1 it emits no r at all; and for every
\* v in 1..11 the digit of v decodes to the 12 levels.
C2_UniformShorthand ==
  (Persisted /\ AllSame(el.relics))
    => /\ el.relics[1] >= 2 => RelicParam = Some(<<LevelDigit[el.relics[1]]>>)
       /\ el.relics[1] = 1 => RelicParam = NoValue
       /\ parseRelicParam(Some(<<LevelDigit[el.relics[1]]>>)) = Some(el.relics)

C2_Witness ==
  /\ Persisted
  /\ AllSame(el.relics)
  /\ el.relics[1] = 10
  /\ RelicParam = Some(<<"a">>)

\* C4: after persistStateToUrl, the URL has no o parameter when the
\* other-buff controls hold the default triple; when they hold any other
\* record it has one, and that decodes to the record the controls hold.
C4_Stated ==
  Persisted
    => IF OtherControls = [guildBlessing |-> <<"1">>, unitLevelSumBuff |-> <<"0">>,
                           petLevelSum |-> PET_LEVEL_SUM_VALUES[1]]
       THEN OtherParam = NoValue
       ELSE OtherParam.some /\ unpackOtherBuffs(OtherParam.val) = Some(OtherControls)

\* C6: a persistStateToUrl call that directly follows another one, with no
\* change of a control in between, performs no history.replaceState.
C6_SecondPersistIsNoOp == (lastOp = "persist2") => ~replaced

C6_Witness ==
  /\ lastOp = "persist2"
  /\ replacedPrev
  /\ ~replaced
  /\ ~(location \in StartLocations)

\* The query parameters other than r and o, in order.
Unrelated(params) ==
  LET IsUnrelated(p) == p.key \notin {"r", "o"}
  IN SelectSeq(params, IsUnrelated)

\* C7: no step changes the path, the hash, or the key, value and order of
\* the query parameters other than r and o.
C7_UnrelatedPreserved ==
  [][/\ location'.pathname = location.pathname
     /\ location'.hash = location.hash
     /\ Unrelated(location'.params) = Unrelated(location.params)]_vars

C7_Witness ==
  /\ Persisted
  /\ replaced
  /\ Len(Unrelated(location.params)) = 2
  /\ RelicParam.some
  /\ location.params[1].key = "a"

\* What the two tokens of the URL decode to.
RelicDecoded == parseRelicParam(RelicParam)
OtherDecoded ==
  IF OtherParam.some /\ OtherParam.val # << >> THEN unpackOtherBuffs(OtherParam.val)
  ELSE NoValue

\* The controls hold the record st, as far as the selects have its values.
OtherControlsHold(st) ==
  /\ el.guildBlessing = SelectValue(GuildOptions, st.guildBlessing)
  /\ el.unitLevelSumBuff = SelectValue(UnitOptions, st.unitLevelSumBuff)
  /\ el.petLevelSum = SelectValue(PetOptions, st.petLevelSum)

\* C8: after applyStateFromUrl, a valid o token has been applied to the
\* other-buff controls although the r token is invalid or absent, and a
\* valid r token to the relic selects although the o token is invalid or
\* absent.
C8_GroupsIndependent ==
  (lastOp = "apply")
    => /\ (~RelicDecoded.some /\ OtherDecoded.some)
            => (applied.appliedOther /\ OtherControlsHold(OtherDecoded.val))
       /\ (~OtherDecoded.some /\ RelicDecoded.some)
            => (applied.appliedRelic /\ el.relics = RelicDecoded.val)

C8_Witness ==
  /\ lastOp = "apply"
  /\ RelicParam = Some(<<"!", "!">>)
  /\ OtherParam = Some(<<"f", "2">>)
  /\ applied.appliedOther
  /\ ~applied.appliedRelic
  /\ el.unitLevelSumBuff = <<"3", ".", "5">>

\* C9: a call of applyStateFromUrl leaves the 12 relic selects and the
\* summary control as they were when the r token is invalid or absent, the
\* three other-buff controls as they were when the o token is invalid or
\* absent, and the URL as it was in every case.
C9_InvalidLeavesControls ==
  [][(lastOp' = "apply")
       => /\ ~RelicDecoded.some
               => (el'.relics = el.relics /\ el'.allRelicLv = el.allRelicLv)
          /\ ~OtherDecoded.some
               => /\ el'.guildBlessing = el.guildBlessing
                  /\ el'.unitLevelSumBuff = el.unitLevelSumBuff
                  /\ el'.petLevelSum = el.petLevelSum
          /\ location' = location]_vars

C9_Witness ==
  /\ lastOp = "apply"
  /\ RelicParam.some
  /\ ~RelicDecoded.some
  /\ ~applied.appliedRelic
  /\ el.relics # DefaultControls.relics

\* C10: applyStateFromUrl returns appliedRelic exactly when r is present
\* and decodes to levels, which the relic selects then hold, and
\* appliedOther exactly when o is present and decodes to a record, which the
\* other-buff controls then hold.
C10_FlagsReportDecoding ==
  (lastOp \in {"apply", "init"})
    => /\ applied.appliedRelic <=> RelicDecoded.some
       /\ applied.appliedOther <=> OtherDecoded.some
       /\ applied.appliedRelic => el.relics = RelicDecoded.val
       /\ applied.appliedOther => OtherControlsHold(OtherDecoded.val)

C10_Witness ==
  /\ lastOp = "apply"
  /\ applied.appliedRelic
  /\ ~applied.appliedOther
  /\ OtherParam = Some(<<"!", "!">>)
  /\ ~AllSame(el.relics)

\* C14: after persistStateToUrl with all 12 relic levels read as 1 the URL
\* has no r parameter, and initialisation against a URL without r ends with
\* all 12 relic selects at level 1.
C14_RelicDefaultSuppressed ==
  /\ (Persisted /\ \A i \in 1..12 : getRelicLevelsFromUI(el)[i] = 1)
       => RelicParam = NoValue
  /\ (lastOp = "init" /\ RelicParam = NoValue)
       => \A i \in 1..12 : el.relics[i] = 1

C14_Witness ==
  /\ lastOp = "change"
  /\ replaced
  /\ \A i \in 1..12 : el.relics[i] = 1
  /\ RelicParam = NoValue
  /\ OtherParam.some

\* C15: after persistStateToUrl on controls whose other-buff values are of
\* the declared domain (relic levels are always in 1..11), loading the page
\* at the resulting URL from default controls yields the same 12 relic
\* levels and the same three other-buff values.
C15_PersistLoadRoundTrip ==
  (Persisted /\ OtherControls \in OtherRecords)
    => /\ PageLoad(location).relics = el.relics
       /\ getOtherBuffsFromUI(PageLoad(location)) = OtherControls

C15_Witness ==
  /\ lastOp = "change"
  /\ replaced
  /\ el.relics[1] # el.relics[12]
  /\ el.guildBlessing = <<"2">>
  /\ el.unitLevelSumBuff = <<"3", ".", "5">>
  /\ Len(RelicParam.val) = 8
  /\ PageLoad(location).relics = el.relics
  /\ PageLoad(location).relics # DefaultControls.relics

\* The relic levels and the other-buff record the URL stands for: an absent
\* parameter stands for the default group.
UrlRelics ==
  IF RelicParam = NoValue THEN Some(DefaultControls.relics) ELSE parseRelicParam(RelicParam)

UrlOther ==
  IF OtherParam = NoValue THEN Some(getOtherBuffsFromUI(DefaultControls))
  ELSE unpackOtherBuffs(OtherParam.val)

\* C16: after the change handler of a relic select, the summary select or
\* an other-buff control, the r and o parameters of the URL decode to the
\* current values of the controls of both groups.
C16_Stated ==
  (lastOp = "change")
    => /\ UrlRelics = Some(el.relics)
       /\ UrlOther = Some(OtherControls)

\* C20: after init(), if applyStateFromUrl applied no relic token, all 12
\* relic selects hold the value of the summary level control; if it applied
\* one, the relic selects hold the decoded levels, and the summary control
\* holds their common level when the 12 levels are equal and keeps its
\* initial value otherwise.
C20_InitRelics ==
  (lastOp = "init")
    => /\ ~applied.appliedRelic
            => \A i \in 1..Len(RELIC_KEYS) : el.relics[i] = el.allRelicLv
       /\ applied.appliedRelic
            => /\ parseRelicParam(RelicParam).some
               /\ el.relics = parseRelicParam(RelicParam).val
               /\ el.allRelicLv =
                    IF \A i \in 1..12 : el.relics[i] = el.relics[1]
                    THEN el.relics[1] ELSE DefaultControls.allRelicLv

C20_Witness ==
  /\ lastOp = "init"
  /\ applied.appliedRelic
  /\ el.relics = <<1, 2, 3, 4, 5, 6, 7, 8, 9, 10, 11, 1>>
  /\ el.allRelicLv = 1

(***************************************************************************)
(* Properties of the party and recalc (SpecParty)                          *)
(***************************************************************************)
\* The step changed the character of row i.
CharacterStep(i) == partyOp'.op = "character" /\ partyOp'.row = i

\* Row i comes back to a mythic character with the treasure level it had
\* when it left one.
ReturnRestores(i) ==
  (/\ ~IsMythic(party.rows[i].character)
   /\ IsMythic(party'.rows[i].character)
   /\ hist.leftLv[i].some)
    => party'.rows[i].treasureLv = hist.leftLv[i].val

\* Row i goes from a mythic character to a mythic character and keeps its
\* treasure level.
DirectKeeps(i) ==
  (IsMythic(party.rows[i].character) /\ IsMythic(party'.rows[i].character))
    => party'.rows[i].treasureLv = party.rows[i].treasureLv

\* C21: when the character of a row changes from a non-mythic to a mythic
\* one, the treasure-level select gets the value it had when the row last
\* left a mythic character, however many non-mythic characters were chosen
\* in between; when it changes from a mythic to a mythic one, the
\* treasure-level select keeps its value.
C21_Stated ==
  [][\A i \in 1..Len(party.rows) :
       CharacterStep(i) => (ReturnRestores(i) /\ DirectKeeps(i))]_vars

\* C22: once init() has built the default party, the party list has at
\* least one row, the rows have distinct ids, and no id was given to two of
\* the rows created so far.
C22_NeverEmptyUniqueIds ==
  (partyOp.op # "off")
    => /\ Len(party.rows) >= 1
       /\ Len(hist.created) = party.memberSeq
       /\ \A i \in 1..Len(hist.created) : \A j \in 1..Len(hist.created) :
            (hist.created[i] = hist.created[j]) => i = j
       /\ \A i \in 1..Len(party.rows) : \A j \in 1..Len(party.rows) :
            (party.rows[i].id = party.rows[j].id) => i = j

\* The only row was removed and a fresh default row took its place.
C22_Witness ==
  /\ partyOp.op = "remove"
  /\ party.memberSeq = 3
  /\ Len(party.rows) = 1
  /\ party.rows[1] = updateTreasureVisibility(NewRow(3, CHARACTERS[1].id, 1))
  /\ hist.created = <<MemberId(1), MemberId(2), MemberId(3)>>

\* The outcomes with which a request fails: a non-OK status, a body that is
\* no JSON, and an answer whose rendering throws.
FailureOutcomes == {"status", "json", "extra"}

\* C23: the step that settles a request clears the busy state; when the
\* request failed, the log holds the error text and the displayed total is
\* the one displayed before.
C23_Stated ==
  [][(partyOp'.op = "settle")
       => /\ ~calc'.busy
          /\ (partyOp'.outcome \in FailureOutcomes)
               => /\ calc'.log.some
                  /\ calc'.log.val.error
                  /\ calc'.totalValue = calc.totalValue]_vars

\* C24: while a compute request is in flight, the calculate button is
\* disabled and the busy status is shown.
C24_Stated == (calc.pending # {}) => calc.busy

\* The request issued last, and what computeViaPython gave recalc for it.
LastRequest == [req |-> calc.issued, members |-> hist.lastMembers]
LastAnswer == computeViaPython(hist.lastOutcome.val, Len(hist.lastMembers))

\* C25: once no request is in flight, the log is the one the request issued
\* last wrote, and if that request got an answer, the displayed total and
\* the dps of its rows are those of that answer.
C25_Stated ==
  (calc.issued > 0 /\ calc.pending = {})
    => /\ hist.lastOutcome.some
       /\ calc.log = Settled(calc, LastRequest, LastAnswer).log
       /\ ~LastAnswer.threw
            => /\ calc.totalValue = Some(TotalOf(LastAnswer.data))
               /\ party.rows = RowsRendered(party.rows, LastRequest, LastAnswer.data)

====
